---- MODULE Spec2Model ----
(***************************************************************************)
(* Wireit: service lifecycle (src/src/execution/service.ts), analyzer      *)
(* cycle check (src/src/analyzer.ts), worker pool semaphore, fingerprint   *)
(* tracking (src/src/fingerprint.ts) and the executor's run decision.      *)
(***************************************************************************)
EXTENDS Integers, Naturals, Sequences, FiniteSets, TLC

(***************************************************************************)
(* Bounds                                                                  *)
(***************************************************************************)
\* Number of distinct fingerprint values a service can compute.
NumFingerprints == 2
\* Number of times Executor.execute is requested for the service per executor.
MaxCallers == 2
\* Number of scripts in the analyzed package graph.
NumScripts == 3
\* Total number of dependency entries declared in the graph.
MaxEdges == 4
\* Number of tasks that reserve slots of the worker pool.
NumTasks == 3
\* Largest number of slots of the worker pool.
MaxSlots == 2
\* Number of distinct contents of the input file of a script.
NumContents == 2
\* Largest number of dependencies of the fingerprinted script.
MaxDeps == 1
\* Number of successive executions of the script.
MaxExecutions == 3
\* Number of contents the root manifest takes.
NumManifests == 2
\* Number of scripts a script depends on, number of its input files.
NumRefs == 2
NumPaths == 2
\* Number of changes between two computations of a fingerprint.
MaxEdits == 1
\* Number of timeout ids the watcher's debounce can hold at once.
MaxTimers == 2
\* Number of dependencies of the script whose dependencies are executed, and
\* number of distinct Failure objects their executions can return.
MaxSiblings == 2
NumFailures == 2
\* Number of get() / set() calls on the GitHub Actions cache, and number of
\* chunks a tarball is uploaded in.
MaxCacheCalls == 2
MaxChunks == 1
\* Number of 'success' events logged in one run.
MaxEvents == 3

\* A ServiceScriptExecution refers to two objects only: itself and its adoptee,
\* the execution of the same service in the previous watch iteration. The
\* model holds such a pair: execution 1 and execution 2, which adopts 1.
Iters == {1, 2}
FPs == 1..NumFingerprints

(***************************************************************************)
(* Service lifecycle                                                       *)
(***************************************************************************)
ServiceState ==
  {"initial", "executingDeps", "fingerprinting", "stoppingAdoptee",
   "unstarted", "depsStarting", "starting", "started", "stopping",
   "stopped", "failing", "failed", "detached"}

VARIABLES
  iter,       \* number of executors constructed so far
  exec,       \* exec[i]: the ServiceScriptExecution of executor i
  child,      \* child[c]: status of the child process spawned by execution c
  killed,     \* killed[c]: kill() was called on child c
  log         \* number of 'service-started' / 'service-stopped' events logged

svcVars == <<iter, exec, child, killed, log>>

\* The object as constructed (service.ts constructor).
NewExecution(adoptee, persistent) ==
  [ state |-> "initial",
    adoptee |-> adoptee,
    fingerprint |-> 0,
    child |-> 0,
    isPersistent |-> persistent,
    deferredFingerprint |-> "none",
    started |-> "none",
    terminated |-> "pending",
    terminatedResolves |-> 0,
    servicesNotNeeded |-> FALSE,
    threw |-> FALSE,
    calls |-> 0,
    runs |-> 0,
    reinvoked |-> FALSE,
    entireExecutionAborted |-> FALSE,  \* the executor's abort promise resolved
    allConsumersDone |-> FALSE,  \* every consumer resolved servicesNotNeeded
    computed |-> 0,  \* the fingerprint Fingerprint.compute() resolved with
    \* one-shot promise callbacks: "none", "armed", "fired"
    cbAbort |-> "none",
    cbDeps |-> "none",
    cbFingerprint |-> "none",
    cbAdopteeStopped |-> "none",
    cbDepsStarted |-> "none",
    cbDepServiceExit |-> "none",
    cbChildStarted |-> "none",
    cbChildExited |-> "none",
    adopteeChild |-> 0,   \* the child whose exit _onAdopteeStopped awaits
    subChild |-> 0 ]      \* the child whose started/completed are awaited

\* The getter still answering with the fingerprint while the service stops.
FingerprintWhileStopping(e) ==
  CASE e.state \in {"stoppingAdoptee", "unstarted", "depsStarting",
                    "starting", "started", "stopping"} -> e.fingerprint
    [] e.state \in {"stopped", "failed", "failing", "detached"} -> 0
    [] OTHER -> -1

\* The getter `fingerprint`: 0 stands for undefined, -1 for a throw.
Fingerprint(e) ==
  CASE e.state \in {"stoppingAdoptee", "unstarted", "depsStarting",
                    "starting", "started"} -> e.fingerprint
    [] e.state \in {"stopping", "stopped", "failed", "failing", "detached"} -> 0
    [] OTHER -> -1

\* detach(): "child" when the child is handed over, "undefined", or "throw".
DetachOutcome(e) ==
  CASE e.state = "started" -> "child"
    [] e.state \in {"stopping", "stopped", "failed", "failing"} -> "undefined"
    [] OTHER -> "throw"

\* The execution after detach() handed its child over.
Detached(e) == [e EXCEPT !.state = "detached", !.child = 0]

Throw(e) == [e EXCEPT !.threw = TRUE]

\* States of the previous iteration's service when the next executor is
\* constructed: the previous Executor.execute() has returned.
AdoptableStates == {"started", "stopping", "stopped", "failing", "failed"}

SvcInit ==
  /\ iter = 0
  /\ exec = [i \in Iters |-> NewExecution(FALSE, FALSE)]
  /\ child = [c \in Iters |-> "none"]
  /\ killed = [c \in Iters |-> FALSE]
  /\ log = [started |-> 0, stopped |-> 0]

\* A new Executor is constructed (watcher #execute); it constructs the
\* service execution with the previous iteration's service as adoptee.
NewExecutor(persistent, limit) ==
  /\ iter < limit
  /\ iter > 0 => exec[iter].state \in AdoptableStates
  /\ iter' = iter + 1
  /\ exec' = [exec EXCEPT ![iter + 1] = NewExecution(iter > 0, persistent)]
  /\ UNCHANGED <<child, killed, log>>

\* _execute() with 'stopped' missing from the states that throw.
ExecuteAlsoFromStopped(e) ==
  IF e.state \in {"initial", "stopped"}
  THEN [e EXCEPT !.state = "executingDeps",
                 !.deferredFingerprint = "pending",
                 !.cbAbort = "armed",
                 !.cbDeps = "armed",
                 !.runs = e.runs + 1]
  ELSE e

\* _execute(): the body runs from 'initial' only; in any other state the call
\* throws to its caller and the execution is left as it was.
Execute(e) ==
  IF e.state = "initial"
  THEN [e EXCEPT !.state = "executingDeps",
                 !.deferredFingerprint = "pending",
                 !.cbAbort = "armed",
                 !.cbDeps = "armed",
                 !.runs = e.runs + 1]
  ELSE e

\* Executor.execute(config): the first request creates the handle by calling
\* _execute(); every later request for the same reference gets that handle.
ExecutorExecute(i, limit) ==
  /\ i = iter
  /\ exec[i].calls < limit
  /\ exec' = [exec EXCEPT ![i] =
       IF exec[i].calls = 0
       THEN [Execute(exec[i]) EXCEPT !.calls = 1]
       ELSE [exec[i] EXCEPT !.calls = exec[i].calls + 1]]
  /\ UNCHANGED <<iter, child, killed, log>>

\* _execute() invoked a second time on the same execution object.
Reinvoke(i) ==
  /\ i <= iter
  /\ exec[i].calls > 0
  /\ ~exec[i].reinvoked
  /\ exec' = [exec EXCEPT ![i] = [Execute(exec[i]) EXCEPT !.reinvoked = TRUE]]
  /\ UNCHANGED <<iter, child, killed, log>>

\* start()
Start(e) ==
  CASE e.state = "unstarted" ->
         [e EXCEPT !.state = "depsStarting",
                   !.started = "pending",
                   !.cbDepsStarted = "armed",
                   !.cbDepServiceExit = "armed"]
    [] e.state \in {"starting", "started", "failing", "failed"} -> e
    [] OTHER -> Throw(e)

\* _onDepsExecuted
OnDepsExecuted(e) ==
  CASE e.state = "executingDeps" ->
         [e EXCEPT !.state = "fingerprinting", !.cbFingerprint = "armed"]
    [] e.state \in {"stopped", "failed"} -> e
    [] OTHER -> Throw(e)

\* _onDepExecErr
OnDepExecErr(e) ==
  CASE e.state = "executingDeps" -> [e EXCEPT !.deferredFingerprint = "err"]
    [] e.state \in {"stopped", "failed"} -> e
    [] OTHER -> Throw(e)

\* The tail shared by _onFingerprinted and _onAdopteeStopped: resolve the
\* execute() result, become 'unstarted', and start at once when persistent.
BecomeUnstarted(e, f, adoptee) ==
  LET u == [e EXCEPT !.deferredFingerprint = "ok",
                     !.state = "unstarted",
                     !.fingerprint = f,
                     !.adoptee = adoptee]
  IN IF e.isPersistent THEN Start(u) ELSE u

\* _onAdopteeStopped
OnAdopteeStopped(e) ==
  CASE e.state = "stoppingAdoptee" -> BecomeUnstarted(e, e.fingerprint, FALSE)
    [] e.state \in {"failed", "stopped"} -> e
    [] OTHER -> Throw(e)

\* _onDepServiceExit (the kill() of the child is applied by the action)
OnDepServiceExit(e) ==
  CASE e.state = "started" -> [e EXCEPT !.state = "failing", !.child = 0]
    [] e.state \in {"stopped", "detached"} -> e
    [] OTHER -> Throw(e)

\* _onChildStarted
OnChildStarted(e) ==
  CASE e.state = "starting" -> [e EXCEPT !.started = "ok", !.state = "started"]
    [] OTHER -> Throw(e)

\* _fail
Fail(e) ==
  [e EXCEPT !.state = "failed",
            !.child = 0,
            !.terminated = "err",
            !.terminatedResolves = e.terminatedResolves + 1,
            !.servicesNotNeeded = TRUE]

\* _onChildExited with 'detached' handled like 'started'.
OnChildExitedDetachedFails(e) ==
  CASE e.state = "stopping" ->
         [e EXCEPT !.state = "stopped",
                   !.terminated = "ok",
                   !.terminatedResolves = e.terminatedResolves + 1,
                   !.servicesNotNeeded = TRUE]
    [] e.state \in {"started", "failing", "detached"} -> Fail(e)
    [] e.state = "failed" -> e
    [] OTHER -> Throw(e)

\* _onChildExited
OnChildExited(e) ==
  CASE e.state = "stopping" ->
         [e EXCEPT !.state = "stopped",
                   !.terminated = "ok",
                   !.terminatedResolves = e.terminatedResolves + 1,
                   !.servicesNotNeeded = TRUE]
    [] e.state \in {"started", "failing"} -> Fail(e)
    [] e.state \in {"failed", "detached"} -> e
    [] OTHER -> Throw(e)

\* _onAbort (the kill() of the child is applied by the action)
OnAbort(e) ==
  CASE e.state = "started" -> [e EXCEPT !.state = "stopping", !.child = 0]
    [] e.state = "starting" -> [e EXCEPT !.state = "stopping", !.child = 0]
    [] e.state \in {"initial", "executingDeps", "fingerprinting",
                    "stoppingAdoptee", "unstarted", "depsStarting"} ->
         [e EXCEPT !.state = "stopped"]
    [] OTHER -> e

\* `abort` as the race of the two promises, whatever isPersistent.
AbortResolvedEither(e) == e.entireExecutionAborted \/ e.allConsumersDone

\* The promise `abort` wired in _execute() is resolved.
AbortResolved(e) ==
  IF e.isPersistent
  THEN e.entireExecutionAborted /\ e.allConsumersDone
  ELSE e.allConsumersDone

\* The children on which _onAbort calls kill().
AbortKills(e) == IF e.state = "started" THEN {e.child} ELSE {}

\* The children on which _onDepServiceExit calls kill().
DepServiceExitKills(e) == IF e.state = "started" THEN {e.child} ELSE {}

Kill(cs) == [c \in Iters |-> killed[c] \/ c \in cs]

\* The promise returned by _executeDependencies() settles.
DepsExecuted(i) ==
  /\ i <= iter
  /\ exec[i].cbDeps = "armed"
  /\ \E ok \in BOOLEAN :
       LET e == [exec[i] EXCEPT !.cbDeps = "fired"]
       IN exec' = [exec EXCEPT ![i] =
                     IF ok THEN OnDepsExecuted(e) ELSE OnDepExecErr(e)]
  /\ UNCHANGED <<iter, child, killed, log>>

\* The fingerprints iteration i can compute. Fingerprints are only compared
\* for equality, so a fingerprint unlike all earlier ones is given the next
\* unused number.
FingerprintsAt(i) == {f \in FPs : f <= i}

\* Fingerprint.compute() resolves with fingerprint f: _onFingerprinted.
Fingerprinted(i) ==
  /\ i <= iter
  /\ exec[i].cbFingerprint = "armed"
  /\ \E f \in FingerprintsAt(i) :
       LET e == [exec[i] EXCEPT !.cbFingerprint = "fired", !.computed = f]
           a == IF i > 1 THEN exec[i - 1] ELSE e
           afp == IF e.adoptee THEN Fingerprint(a) ELSE 0
       IN CASE e.state = "fingerprinting" /\ afp = -1 ->
                 \* the adoptee's getter throws
                 /\ exec' = [exec EXCEPT ![i] = Throw(e)]
                 /\ UNCHANGED killed
            [] e.state = "fingerprinting" /\ afp > 0 /\ afp # f ->
                 CASE DetachOutcome(a) = "child" ->
                        /\ exec' = [exec EXCEPT
                             ![i - 1] = Detached(a),
                             ![i] = [e EXCEPT !.state = "stoppingAdoptee",
                                              !.fingerprint = f,
                                              !.cbAdopteeStopped = "armed",
                                              !.adopteeChild = a.child]]
                        /\ killed' = Kill({a.child})
                   [] DetachOutcome(a) = "undefined" ->
                        /\ exec' = [exec EXCEPT ![i] = e]
                        /\ UNCHANGED killed
                   [] OTHER ->
                        /\ exec' = [exec EXCEPT ![i] = Throw(e)]
                        /\ UNCHANGED killed
            [] e.state = "fingerprinting" ->
                 /\ exec' = [exec EXCEPT ![i] = BecomeUnstarted(e, f, e.adoptee)]
                 /\ UNCHANGED killed
            [] e.state \in {"failed", "stopped"} ->
                 /\ exec' = [exec EXCEPT ![i] = e]
                 /\ UNCHANGED killed
            [] OTHER ->
                 /\ exec' = [exec EXCEPT ![i] = Throw(e)]
                 /\ UNCHANGED killed
  /\ UNCHANGED <<iter, child, log>>

\* The killed adoptee's child has exited: _onAdopteeStopped.
AdopteeStopped(i) ==
  /\ i <= iter
  /\ exec[i].cbAdopteeStopped = "armed"
  /\ child[exec[i].adopteeChild] \in {"exited", "exitedEarly"}
  /\ exec' = [exec EXCEPT ![i] =
       OnAdopteeStopped([exec[i] EXCEPT !.cbAdopteeStopped = "fired"])]
  /\ UNCHANGED <<iter, child, killed, log>>

\* A consumer of the current executor, having awaited the service's execute()
\* result and not yet done with the service, calls start().
ConsumerStart(i) ==
  /\ i = iter
  /\ exec[i].deferredFingerprint = "ok"
  /\ ~exec[i].allConsumersDone
  /\ exec' = [exec EXCEPT ![i] = Start(exec[i])]
  /\ exec' # exec
  /\ UNCHANGED <<iter, child, killed, log>>

\* _startServices() resolves: _onDepsStarted.
DepsStarted(i) ==
  /\ i <= iter
  /\ exec[i].cbDepsStarted = "armed"
  /\ LET e == [exec[i] EXCEPT !.cbDepsStarted = "fired"]
         a == IF i > 1 THEN exec[i - 1] ELSE e
         d == IF e.adoptee THEN DetachOutcome(a) ELSE "undefined"
         subscribed(c) == [e EXCEPT !.state = "starting",
                                    !.child = c,
                                    !.adoptee = FALSE,
                                    !.subChild = c,
                                    !.cbChildStarted = "armed",
                                    !.cbChildExited = "armed"]
     IN CASE e.state = "depsStarting" /\ d = "child" ->
               \* the adoptee hands its running child over
               /\ exec' = [exec EXCEPT ![i - 1] = Detached(a),
                                       ![i] = subscribed(a.child)]
               /\ UNCHANGED child
          [] e.state = "depsStarting" /\ d = "undefined" ->
               \* new ScriptChildProcess(config)
               /\ exec' = [exec EXCEPT ![i] = subscribed(i)]
               /\ child' = [child EXCEPT ![i] = "spawning"]
          [] e.state = "depsStarting" ->
               /\ exec' = [exec EXCEPT ![i] = Throw(e)]
               /\ UNCHANGED child
          [] e.state = "failed" ->
               /\ exec' = [exec EXCEPT ![i] = e]
               /\ UNCHANGED child
          [] OTHER ->
               /\ exec' = [exec EXCEPT ![i] = Throw(e)]
               /\ UNCHANGED child
  /\ UNCHANGED <<iter, killed, log>>

\* _anyServiceTerminated resolves (an upstream service exited): _onDepServiceExit.
DepServiceExit(i) ==
  /\ i <= iter
  /\ exec[i].cbDepServiceExit = "armed"
  /\ exec' = [exec EXCEPT ![i] =
       OnDepServiceExit([exec[i] EXCEPT !.cbDepServiceExit = "fired"])]
  /\ killed' = Kill(DepServiceExitKills(exec[i]))
  /\ UNCHANGED <<iter, child, log>>

\* child.started resolves: _onChildStarted.
ChildStarted(i) ==
  /\ i <= iter
  /\ exec[i].cbChildStarted = "armed"
  /\ child[exec[i].subChild] \in {"started", "exited"}
  /\ exec' = [exec EXCEPT ![i] =
       OnChildStarted([exec[i] EXCEPT !.cbChildStarted = "fired"])]
  /\ log' = IF exec[i].state = "starting"
            THEN [log EXCEPT !.started = log.started + 1]
            ELSE log
  /\ UNCHANGED <<iter, child, killed>>

\* child.completed resolves: _onChildExited. Promise callbacks run in the
\* order their promises resolved, so a started child's child.started callback
\* has run first.
ChildExited(i) ==
  /\ i <= iter
  /\ exec[i].cbChildExited = "armed"
  /\ \/ child[exec[i].subChild] = "exitedEarly"
     \/ child[exec[i].subChild] = "exited" /\ exec[i].cbChildStarted = "fired"
  /\ exec' = [exec EXCEPT ![i] =
       OnChildExited([exec[i] EXCEPT !.cbChildExited = "fired"])]
  /\ log' = IF exec[i].state = "stopping"
            THEN [log EXCEPT !.stopped = log.stopped + 1]
            ELSE log
  /\ UNCHANGED <<iter, child, killed>>

\* The abort promise wired in _execute() resolves: _onAbort.
Abort(i) ==
  /\ i <= iter
  /\ exec[i].cbAbort = "armed"
  /\ AbortResolved(exec[i])
  /\ exec' = [exec EXCEPT ![i] = OnAbort([exec[i] EXCEPT !.cbAbort = "fired"])]
  /\ killed' = Kill(AbortKills(exec[i]))
  /\ UNCHANGED <<iter, child, log>>

\* Executor.abort(): the promise entireExecutionAborted of executor i resolves.
EntireExecutionAborts(i) ==
  /\ 1 <= i /\ i <= iter
  /\ ~exec[i].entireExecutionAborted
  /\ exec' = [exec EXCEPT ![i].entireExecutionAborted = TRUE]
  /\ UNCHANGED <<iter, child, killed, log>>

\* The last of the service's consumers in executor i resolves its
\* servicesNotNeeded (at once when the service has no consumer).
ConsumersDone(i) ==
  /\ 1 <= i /\ i <= iter
  /\ ~exec[i].allConsumersDone
  /\ exec' = [exec EXCEPT ![i].allConsumersDone = TRUE]
  /\ UNCHANGED <<iter, child, killed, log>>

\* The child process reports that it has started (spawned, or its readiness
\* line matched).
ProcessStarts(c) ==
  /\ child[c] = "spawning"
  /\ child' = [child EXCEPT ![c] = "started"]
  /\ UNCHANGED <<iter, exec, killed, log>>

\* The child process exits, killed or of its own accord.
ProcessExits(c) ==
  /\ child[c] \in {"spawning", "started"}
  /\ child' = [child EXCEPT ![c] =
                 IF child[c] = "started" THEN "exited" ELSE "exitedEarly"]
  /\ UNCHANGED <<iter, exec, killed, log>>

\* The events of a service execution that has no adoptee to stop.
OwnEvent(i) ==
  \/ DepsExecuted(i)
  \/ Fingerprinted(i)
  \/ ConsumerStart(i)
  \/ DepsStarted(i)
  \/ DepServiceExit(i)
  \/ ChildStarted(i)
  \/ ChildExited(i)
  \/ Abort(i)
  \/ EntireExecutionAborts(i)
  \/ ConsumersDone(i)
  \/ ProcessStarts(i)
  \/ ProcessExits(i)

\* Watch mode: successive executors, each executing the service once.
SvcNext ==
  \/ \E p \in BOOLEAN : NewExecutor(p, Cardinality(Iters))
  \/ \E i \in Iters : ExecutorExecute(i, 1) \/ OwnEvent(i) \/ AdopteeStopped(i)

\* One executor whose dependents request the service concurrently.
OneExecutorNext ==
  \/ \E p \in BOOLEAN : NewExecutor(p, 1)
  \/ \E i \in Iters : ExecutorExecute(i, MaxCallers) \/ Reinvoke(i) \/ OwnEvent(i)


(***************************************************************************)
(* Analyzer                                                                *)
(***************************************************************************)
\* Script references; the order of the numbers is the (packageDir, name)
\* order of localeCompare.
Scripts == 1..NumScripts

VARIABLES
  root,          \* the script analyze() was called for (0 before the call)
  phase,         \* "idle", "upgrading", "checking", "done"
  placeholders,  \* #placeholders: the references that have a placeholder
  queue,         \* #placeholderUpgradePromises
  awaited,       \* the promise the loop of analyze() is awaiting (0: none)
  upgraded,      \* the placeholders whose upgrade promise has resolved
  declared,      \* declared[n]: dependenciesAst.children of n, as references
  dependencies,  \* dependencies[n]: the config's dependencies array
  stack,         \* the frames of #checkForCyclesAndSortDependencies
  trail,         \* the trail Set, in insertion order
  result,        \* "none", "ok", "cycle"
  failures,      \* the failures analyze() returned
  created,       \* created[n]: number of placeholder objects made for n
  enqueued,      \* enqueued[n]: number of calls of #upgradePlaceholder for n
  held           \* held[n][k]: which of the objects made for declared[n][k]
                 \* the k-th dependency entry of n holds (1: the first)

anVars == <<root, phase, placeholders, queue, awaited, upgraded, declared,
            dependencies, stack, trail, result, failures, created, enqueued,
            held>>

Range(q) == {q[k] : k \in 1..Len(q)}

\* The dependency arrays a valid manifest can declare: no reference twice
\* (a duplicate is rejected with 'duplicate-dependency').
DepLists(maxLen) ==
  UNION {{q \in [1..k -> Scripts] : \A a, b \in 1..k : a # b => q[a] # q[b]}
         : k \in 0..maxLen}

Min(a, b) == IF a < b THEN a ELSE b

\* Number of dependency entries declared so far.
RECURSIVE EdgesOf(_, _)
EdgesOf(d, n) == IF n = 0 THEN 0 ELSE Len(d[n]) + EdgesOf(d, n - 1)

\* Array.prototype.indexOf: 0 stands for -1 (not found).
RECURSIVE IndexFrom(_, _, _)
IndexFrom(q, x, k) ==
  IF k > Len(q) THEN 0 ELSE IF q[k] = x THEN k ELSE IndexFrom(q, x, k + 1)
IndexOf(q, x) == IndexFrom(q, x, 1)

\* dependencies.sort by (packageDir, name).
RECURSIVE SortDependencies(_)
SortDependencies(q) ==
  IF q = <<>> THEN <<>>
  ELSE LET m == CHOOSE x \in Range(q) : \A y \in Range(q) : x <= y
       IN <<m>> \o SortDependencies(SelectSeq(q, LAMBDA y : y # m))

\* #getPlaceholder making a new placeholder at every call.
NewPlaceholdersAlways(deps) == deps
\* #getPlaceholder for each resolved dependency, in order: the references
\* that got a new placeholder, in the order their upgrades were enqueued.
NewPlaceholders(deps) == SelectSeq(deps, LAMBDA d : d \notin placeholders)

AnInit ==
  /\ root = 0
  /\ phase = "idle"
  /\ placeholders = {}
  /\ queue = <<>>
  /\ awaited = 0
  /\ upgraded = {}
  /\ declared = [n \in Scripts |-> <<>>]
  /\ dependencies = [n \in Scripts |-> <<>>]
  /\ stack = <<>>
  /\ trail = <<>>
  /\ result = "none"
  /\ failures = <<>>
  /\ created = [n \in Scripts |-> 0]
  /\ enqueued = [n \in Scripts |-> 0]
  /\ held = [n \in Scripts |-> <<>>]

\* analyze(root) up to its first await: the root placeholder is created, its
\* upgrade promise is shifted off the queue and awaited.
Analyze(r) ==
  /\ phase = "idle"
  /\ root' = r
  /\ phase' = "upgrading"
  /\ placeholders' = {r}
  /\ awaited' = r
  /\ created' = [created EXCEPT ![r] = @ + 1]
  /\ enqueued' = [enqueued EXCEPT ![r] = @ + 1]
  /\ UNCHANGED <<queue, upgraded, declared, dependencies, stack, trail,
                 result, failures, held>>
  /\ UNCHANGED svcVars

\* #upgradePlaceholder(n) finishes: the manifest has been read, n declares the
\* dependency array deps, each dependency gets or reuses a placeholder, and
\* the placeholder is upgraded in place.
UpgradePlaceholder(n) ==
  /\ phase = "upgrading"
  /\ n \in placeholders \ upgraded
  /\ \E deps \in DepLists(Min(NumScripts, MaxEdges - EdgesOf(declared, NumScripts))) :
       /\ declared' = [declared EXCEPT ![n] = deps]
       /\ dependencies' = [dependencies EXCEPT ![n] = deps]
       /\ placeholders' = placeholders \cup Range(deps)
       /\ queue' = queue \o NewPlaceholders(deps)
       /\ created' = [d \in Scripts |->
                        IF d \in Range(NewPlaceholders(deps))
                        THEN created[d] + 1 ELSE created[d]]
       /\ enqueued' = [d \in Scripts |->
                         IF d \in Range(NewPlaceholders(deps))
                         THEN enqueued[d] + 1 ELSE enqueued[d]]
       /\ held' = [held EXCEPT ![n] = [k \in DOMAIN deps |->
                                         created'[deps[k]]]]
  /\ upgraded' = upgraded \cup {n}
  /\ UNCHANGED <<root, phase, awaited, stack, trail, result, failures>>
  /\ UNCHANGED svcVars

\* The hops of the cycle diagnostic, when config d is re-entered on trail tr.
CycleHops(tr, d) ==
  LET trailArray == Append(tr, d)
      cycleStart == IndexOf(tr, d)
      cycleEnd == Len(trailArray)
  IN [k \in 1..(cycleEnd - cycleStart) |->
        LET current == trailArray[cycleStart + k - 1]
            next == trailArray[cycleStart + k]
            nextIdx == IndexOf(dependencies[current], next)
        IN [from |-> current, to |-> next, node |-> nextIdx]]

\* A call of #checkForCyclesAndSortDependencies(d, trail) up to its loop,
\* with stk the frames of the callers.
Enter(d, stk) ==
  IF d \in Range(trail)
  THEN \* found a cycle: the failure is returned through every caller
       /\ result' = "cycle"
       /\ failures' = <<[reason |-> "cycle", script |-> d,
                         supplementalLocations |-> CycleHops(trail, d)]>>
       /\ phase' = "done"
       /\ stack' = <<>>
       /\ UNCHANGED <<trail, dependencies>>
  ELSE IF Len(dependencies[d]) > 0
  THEN /\ dependencies' = [dependencies EXCEPT ![d] = SortDependencies(@)]
       /\ trail' = Append(trail, d)
       /\ stack' = Append(stk, [config |-> d, i |-> 1])
       /\ phase' = "checking"
       /\ UNCHANGED <<result, failures>>
  ELSE \* no dependencies: returns ok at once
       /\ stack' = stk
       /\ IF stk = <<>>
          THEN result' = "ok" /\ phase' = "done"
          ELSE result' = result /\ phase' = "checking"
       /\ UNCHANGED <<trail, dependencies, failures>>

\* The loop of analyze() ending once the root's own upgrade has resolved.
DrainedAfterRoot(q) == TRUE
\* The condition that ends the loop of analyze(): no promise is left in
\* #placeholderUpgradePromises.
Drained(q) == Len(q) = 0

\* The awaited upgrade promise has resolved: the loop of analyze() awaits the
\* next promise of the queue, or, the queue being empty, starts the cycle
\* check at the root.
Resume ==
  /\ phase = "upgrading"
  /\ awaited \in upgraded
  /\ IF ~Drained(queue)
     THEN /\ awaited' = Head(queue)
          /\ queue' = Tail(queue)
          /\ UNCHANGED <<phase, dependencies, stack, trail, result, failures>>
     ELSE /\ awaited' = 0
          /\ UNCHANGED queue
          /\ Enter(root, <<>>)
  /\ UNCHANGED <<root, placeholders, upgraded, declared, created, enqueued,
                 held>>
  /\ UNCHANGED svcVars

\* The loop returning the result of its first dependency, whatever it is.
HasNextFirstOnly(frame) ==
  frame.i <= Min(1, Len(dependencies[frame.config]))

\* The loop over config.dependencies has another dependency to visit.
HasNext(frame) == frame.i <= Len(dependencies[frame.config])

\* The loop of the innermost call visits its next dependency.
Descend ==
  /\ phase = "checking"
  /\ stack # <<>>
  /\ LET top == stack[Len(stack)]
     IN /\ HasNext(top)
        /\ Enter(dependencies[top.config][top.i],
                 [stack EXCEPT ![Len(stack)] = [top EXCEPT !.i = top.i + 1]])
  /\ UNCHANGED <<root, placeholders, queue, awaited, upgraded, declared,
                 created, enqueued, held>>
  /\ UNCHANGED svcVars

\* The loop of the innermost call is over: trail.delete and return ok.
Return ==
  /\ phase = "checking"
  /\ stack # <<>>
  /\ LET top == stack[Len(stack)]
     IN /\ ~HasNext(top)
        /\ trail' = SelectSeq(trail, LAMBDA x : x # top.config)
        /\ stack' = SubSeq(stack, 1, Len(stack) - 1)
  /\ IF Len(stack) = 1
     THEN result' = "ok" /\ phase' = "done"
     ELSE result' = result /\ phase' = phase
  /\ UNCHANGED <<root, placeholders, queue, awaited, upgraded, declared,
                 dependencies, failures, created, enqueued, held>>
  /\ UNCHANGED svcVars

AnNext ==
  \/ \E r \in Scripts : Analyze(r)
  \/ \E n \in Scripts : UpgradePlaceholder(n)
  \/ Resume
  \/ Descend
  \/ Return

(***************************************************************************)
(* Worker pool: the Semaphore of util/fs.js, as its tests use it           *)
(***************************************************************************)
Tasks == 1..NumTasks

VARIABLES
  numSlots,      \* the argument of new Semaphore(numSlots)
  remaining,     \* slots not reserved
  waiting,       \* the reserve() calls parked until a slot is released
  task,          \* per task: "idle", "waiting", "woken", "holding"
  issuedFull,    \* per task: its reserve() was issued with every slot held
  releasedSince  \* per task: a reservation was disposed since its reserve()

semVars == <<numSlots, remaining, waiting, task, issuedFull, releasedSince>>

SemInit ==
  /\ numSlots \in 1..MaxSlots
  /\ remaining = numSlots
  /\ waiting = <<>>
  /\ task = [t \in Tasks |-> "idle"]
  /\ issuedFull = [t \in Tasks |-> FALSE]
  /\ releasedSince = [t \in Tasks |-> FALSE]

Held == {t \in Tasks : task[t] = "holding"}

\* reserve() that never waits.
NoSlotAlways(rem) == FALSE
\* reserve() has to wait when no slot remains.
NoSlot(rem) == rem = 0

\* reserve(): takes a slot at once if one remains, and parks otherwise.
Reserve(t) ==
  /\ task[t] = "idle"
  /\ issuedFull' = [issuedFull EXCEPT ![t] = (Cardinality(Held) = numSlots)]
  /\ releasedSince' = [releasedSince EXCEPT ![t] = FALSE]
  /\ IF NoSlot(remaining)
     THEN /\ waiting' = Append(waiting, t)
          /\ task' = [task EXCEPT ![t] = "waiting"]
          /\ remaining' = remaining
     ELSE /\ remaining' = remaining - 1
          /\ task' = [task EXCEPT ![t] = "holding"]
          /\ waiting' = waiting
  /\ UNCHANGED numSlots

\* A parked reserve() that was woken looks at the slots again.
Retry(t) ==
  /\ task[t] = "woken"
  /\ IF NoSlot(remaining)
     THEN /\ waiting' = Append(waiting, t)
          /\ task' = [task EXCEPT ![t] = "waiting"]
          /\ remaining' = remaining
     ELSE /\ remaining' = remaining - 1
          /\ task' = [task EXCEPT ![t] = "holding"]
          /\ waiting' = waiting
  /\ UNCHANGED <<numSlots, issuedFull, releasedSince>>

\* reservation[Symbol.dispose](): gives the slot back and wakes one parked
\* reserve().
Dispose(t) ==
  /\ task[t] = "holding"
  /\ remaining' = remaining + 1
  /\ releasedSince' = [u \in Tasks |->
                         IF task[u] \in {"waiting", "woken"}
                         THEN TRUE ELSE releasedSince[u]]
  /\ IF waiting # <<>>
     THEN /\ waiting' = Tail(waiting)
          /\ task' = [task EXCEPT ![t] = "idle", ![Head(waiting)] = "woken"]
     ELSE /\ waiting' = waiting
          /\ task' = [task EXCEPT ![t] = "idle"]
  /\ UNCHANGED <<numSlots, issuedFull>>

SemNext == \E t \in Tasks : Reserve(t) \/ Retry(t) \/ Dispose(t)

(***************************************************************************)
(* Fingerprint.compute and the fresh / cached / run decision of a          *)
(* standard script                                                         *)
(***************************************************************************)
Contents == 1..NumContents
NoFile == <<>>
Refs == 1..NumRefs
Paths == 1..NumPaths

VARIABLES
  process,                 \* process.platform, process.arch, process.version
  scriptConfig,            \* the ScriptConfig handed to Fingerprint.compute
  dependencyFingerprints,  \* the [Dependency, Fingerprint] pairs handed to it
  globbed,                 \* the files its glob matches, as glob lists them
  stored,                  \* the string of the fingerprint computed before
  edits                    \* number of changes made since

fpVars == <<process, scriptConfig, dependencyFingerprints, globbed, stored,
            edits>>

\* [Dependency, Fingerprint] pairs: the reference and the cascade flag of the
\* dependency, and the fullyTracked flag and the rest of the data of its
\* fingerprint.
DependencyFingerprint ==
  [name : {1}, cascade : BOOLEAN, fullyTracked : BOOLEAN, hash : {1}]
DependencyFingerprints ==
  UNION {[1..n -> DependencyFingerprint] : n \in 0..MaxDeps}

\* The fields of a ScriptConfig that Fingerprint.compute reads. extraArgs is
\* a list of arguments, each a list of words; undefined reads as the empty
\* list.
ScriptConfig ==
  [command : {"undefined", "cmd"},
   files : {"undefined", "empty", "some"},
   output : {"undefined", "defined"},
   service : {"undefined", "service"},
   extraArgs : {<<>>},
   clean : {"true"},
   env : {<<>>}]

\* get hash(): the digest of the string of the fingerprint, fullyTracked
\* included.
Hash(d) == <<d.fullyTracked, d.hash>>

\* The first dependency that is not fully tracked, cascading or not.
NotFullyTrackedDepAny(depFps) ==
  LET bad == {k \in DOMAIN depFps : ~depFps[k].fullyTracked}
  IN IF bad = {} THEN 0 ELSE CHOOSE k \in bad : \A j \in bad : k <= j
\* The first cascading dependency that is not fully tracked (0: none).
NotFullyTrackedDep(depFps) ==
  LET bad == {k \in DOMAIN depFps :
                depFps[k].cascade /\ ~depFps[k].fullyTracked}
  IN IF bad = {} THEN 0 ELSE CHOOSE k \in bad : \A j \in bad : k <= j

\* The filter that lets every dependency through.
KeepAll(d) == TRUE
\* cascade: false means the dependency's fingerprint is not inherited.
Cascades(d) == d.cascade

FilteredDependencyFingerprints(depFps) ==
  LET pair(d) == <<d.name, Hash(d)>>
      RECURSIVE walk(_)
      walk(s) == IF s = <<>> THEN <<>>
                 ELSE IF Cascades(Head(s))
                      THEN <<pair(Head(s))>> \o walk(Tail(s))
                      ELSE walk(Tail(s))
  IN walk(depFps)

\* Array.prototype.sort by the first component, left as it came.
Unsorted(entries) == entries
\* Array.prototype.sort by the first component: stable.
Sort(entries) ==
  LET RECURSIVE insert(_, _)
      insert(e, s) ==
        IF s = <<>> THEN <<e>>
        ELSE IF e[1] <= Head(s)[1] THEN <<e>> \o s
        ELSE <<Head(s)>> \o insert(e, Tail(s))
      RECURSIVE sort(_)
      sort(s) == IF s = <<>> THEN <<>> ELSE insert(Head(s), sort(Tail(s)))
  IN sort(entries)

\* Object.fromEntries: a key keeps its first place and its last value.
RECURSIVE FromEntries(_)
FromEntries(entries) ==
  IF entries = <<>> THEN <<>>
  ELSE LET init == FromEntries(SubSeq(entries, 1, Len(entries) - 1))
           e == entries[Len(entries)]
       IN IF \E k \in DOMAIN init : init[k][1] = e[1]
          THEN [k \in DOMAIN init |->
                  IF init[k][1] = e[1] THEN e ELSE init[k]]
          ELSE Append(init, e)

\* The hashes of the files matched by the "files" globs of the script.
FileHashes(script, files) ==
  IF script.files = "some" THEN files ELSE <<>>

\* notFullyTrackedReason without the test of script.files.
NotFullyTrackedReasonFilesIgnored(script, depFps) ==
  IF NotFullyTrackedDep(depFps) # 0 THEN "dependency not fully tracked"
  ELSE IF script.command = "undefined" THEN "undefined"
  ELSE IF script.service # "undefined" THEN "undefined"
  ELSE IF script.output = "undefined" THEN "no output field"
  ELSE "undefined"
NotFullyTrackedReason(script, depFps) ==
  IF NotFullyTrackedDep(depFps) # 0 THEN "dependency not fully tracked"
  ELSE IF script.command = "undefined" THEN "undefined"
  ELSE IF script.files = "undefined" THEN "no files field"
  ELSE IF script.service # "undefined" THEN "undefined"
  ELSE IF script.output = "undefined" THEN "no output field"
  ELSE "undefined"

\* script.output?.values ?? []
OutputValues(script) ==
  CASE script.output = "defined" -> <<<<1>>>>
    [] script.output = "other" -> <<<<2>>>>
    [] script.output = "spaced" -> <<<<1, 2>>>>
    [] script.output = "two" -> <<<<1>>, <<2>>>>
    [] OTHER -> <<>>

\* Fingerprint.compute: the data of the fingerprint.
Compute(script, depFps, files) ==
  [fullyTracked |-> NotFullyTrackedReason(script, depFps) = "undefined",
   platform |-> process.platform,
   arch |-> process.arch,
   nodeVersion |-> process.nodeVersion,
   command |-> script.command,
   extraArgs |-> script.extraArgs,
   clean |-> script.clean,
   files |-> FromEntries(Sort(FileHashes(script, files))),
   output |-> OutputValues(script),
   dependencies |->
     FromEntries(Sort(FilteredDependencyFingerprints(depFps))),
   service |-> script.service,
   env |-> script.env]

\* get string(): the serialization of the data, field by field in order.
String(fp) ==
  <<fp.fullyTracked, fp.platform, fp.arch, fp.nodeVersion, fp.command,
    fp.extraArgs, fp.clean, fp.files, fp.output, fp.dependencies,
    fp.service, fp.env>>

\* Fingerprint.fromString followed by get data().
FromString(str) ==
  [fullyTracked |-> str[1], platform |-> str[2], arch |-> str[3],
   nodeVersion |-> str[4], command |-> str[5], extraArgs |-> str[6],
   clean |-> str[7], files |-> str[8], output |-> str[9],
   dependencies |-> str[10], service |-> str[11], env |-> str[12]]

\* equal() comparing the objects themselves: a fingerprint read back from the
\* file is never the object that was just computed.
EqualByReference(a, b) == FALSE
\* equal(): comparison of the serializations.
Equal(a, b) == String(a) = String(b)

\* Array.prototype.join(' ') of a list of arguments or patterns, each a list
\* of words.
RECURSIVE Join(_)
Join(list) == IF list = <<>> THEN <<>> ELSE Head(list) \o Join(Tail(list))

\* service?.readyWhen.lineMatches
LineMatches(service) ==
  IF service = "lineMatches" THEN "regexp" ELSE "undefined"

\* Object.keys
Keys(object) == [k \in DOMAIN object |-> object[k][1]]
\* object[key], of a key the object has
Get(object, key) ==
  object[CHOOSE k \in DOMAIN object : object[k][1] = key][2]
\* The first key of a list that satisfies a test (0: none).
FirstKey(keys, Test(_)) ==
  LET hits == {k \in DOMAIN keys : Test(keys[k])}
  IN IF hits = {} THEN 0
     ELSE keys[CHOOSE k \in hits : \A j \in hits : k <= j]

\* The three loops of difference() over the keys of two objects: a key of
\* this one missing in the previous one, a key of the previous one missing in
\* this one, a key of this one with another value.
Added(this, prev) ==
  LET missing(key) == \A k \in DOMAIN prev : prev[k][1] # key
  IN FirstKey(Keys(this), missing)
Removed(this, prev) ==
  LET missing(key) == \A k \in DOMAIN this : this[k][1] # key
  IN FirstKey(Keys(prev), missing)
Changed(this, prev) ==
  LET differs(key) == Get(this, key) # Get(prev, key)
  IN FirstKey(Keys(this), differs)

\* difference(previous)
Difference(this, prev) ==
  IF Equal(this, prev) THEN [name |-> "undefined", field |-> "", key |-> 0]
  ELSE IF this.platform # prev.platform
    THEN [name |-> "environment", field |-> "platform", key |-> 0]
  ELSE IF this.arch # prev.arch
    THEN [name |-> "environment", field |-> "arch", key |-> 0]
  ELSE IF this.nodeVersion # prev.nodeVersion
    THEN [name |-> "environment", field |-> "nodeVersion", key |-> 0]
  ELSE IF this.command # prev.command
    THEN [name |-> "config", field |-> "command", key |-> 0]
  ELSE IF Join(this.extraArgs) # Join(prev.extraArgs)
    THEN [name |-> "config", field |-> "extraArgs", key |-> 0]
  ELSE IF this.clean # prev.clean
    THEN [name |-> "config", field |-> "clean", key |-> 0]
  ELSE IF Join(this.output) # Join(prev.output)
    THEN [name |-> "config", field |-> "output", key |-> 0]
  ELSE IF LineMatches(this.service) # LineMatches(prev.service)
    THEN [name |-> "config", field |-> "service", key |-> 0]
  ELSE IF this.env # prev.env
    THEN [name |-> "config", field |-> "env", key |-> 0]
  ELSE IF Added(this.files, prev.files) # 0
    THEN [name |-> "file added", field |-> "",
          key |-> Added(this.files, prev.files)]
  ELSE IF Removed(this.files, prev.files) # 0
    THEN [name |-> "file removed", field |-> "",
          key |-> Removed(this.files, prev.files)]
  ELSE IF Changed(this.files, prev.files) # 0
    THEN [name |-> "file changed", field |-> "",
          key |-> Changed(this.files, prev.files)]
  ELSE IF Added(this.dependencies, prev.dependencies) # 0
    THEN [name |-> "dependency changed", field |-> "",
          key |-> Added(this.dependencies, prev.dependencies)]
  ELSE IF Removed(this.dependencies, prev.dependencies) # 0
    THEN [name |-> "dependency removed", field |-> "",
          key |-> Removed(this.dependencies, prev.dependencies)]
  ELSE IF Changed(this.dependencies, prev.dependencies) # 0
    THEN [name |-> "dependency changed", field |-> "",
          key |-> Changed(this.dependencies, prev.dependencies)]
  ELSE IF this.fullyTracked # prev.fullyTracked
    THEN [name |-> "Internal error", field |-> "fullyTracked", key |-> 0]
  ELSE [name |-> "Internal error", field |-> "", key |-> 0]

\* The lists with the elements of a list in every order.
Orders(list) ==
  {[k \in DOMAIN list |-> list[p[k]]] :
     p \in {q \in [DOMAIN list -> DOMAIN list] :
              \A i, j \in DOMAIN list : q[i] = q[j] => i = j}}

\* The list with an element put in at index k.
InsertAt(list, k, e) ==
  SubSeq(list, 1, k - 1) \o <<e>> \o SubSeq(list, k, Len(list))
\* The list without its element at index k.
RemoveAt(list, k) == SubSeq(list, 1, k - 1) \o SubSeq(list, k + 1, Len(list))

\* The process at rest, and a script with its fingerprint just computed and
\* stored; no script is twice among its dependencies (the analyzer rejects
\* that as 'duplicate-dependency').
ThisProcess == [platform |-> 1, arch |-> 1, nodeVersion |-> 1]
FpInit ==
  /\ process = ThisProcess
  /\ scriptConfig \in ScriptConfig
  /\ dependencyFingerprints \in
       {d \in DependencyFingerprints :
          \A a, b \in DOMAIN d : a # b => d[a].name # d[b].name}
  /\ globbed \in {<<>>, <<<<1, 1>>>>}
  /\ stored = String(Compute(scriptConfig, dependencyFingerprints, globbed))
  /\ edits = 0

\* The script runs on another platform, architecture or version of node.
ProcessChanges ==
  /\ edits < MaxEdits
  /\ \E f \in {"platform", "arch", "nodeVersion"} :
       process' = [process EXCEPT ![f] = 3 - @]
  /\ edits' = edits + 1
  /\ UNCHANGED <<scriptConfig, dependencyFingerprints, globbed, stored>>

\* The configs that differ from a config in one field.
ConfigEdits(s) ==
  ( {[s EXCEPT !.command = v] : v \in {"undefined", "cmd", "cmd2"}}
    \cup {[s EXCEPT !.files = v] : v \in {"undefined", "empty", "some"}}
    \cup {[s EXCEPT !.output = v] :
            v \in {"undefined", "empty", "defined", "other", "spaced", "two"}}
    \cup {[s EXCEPT !.service = v] :
            v \in {"undefined", "service", "lineMatches"}}
    \cup {[s EXCEPT !.extraArgs = v] :
            v \in {<<>>, <<<<1>>>>, <<<<1, 2>>>>, <<<<1>>, <<2>>>>}}
    \cup {[s EXCEPT !.clean = v] : v \in {"true", "false", "if-file-deleted"}}
    \cup {[s EXCEPT !.env = v] : v \in {<<>>, <<<<1, 1>>>>}} ) \ {s}

\* The user edits the wireit config of the script.
ConfigEdited ==
  /\ edits < MaxEdits
  /\ scriptConfig' \in ConfigEdits(scriptConfig)
  /\ edits' = edits + 1
  /\ UNCHANGED <<process, dependencyFingerprints, globbed, stored>>

\* A file that matches the globs appears, anywhere in the listing.
InputFileAdded ==
  /\ edits < MaxEdits
  /\ \E p \in Paths \ {globbed[k][1] : k \in DOMAIN globbed},
        h \in Contents, k \in 1..(Len(globbed) + 1) :
       globbed' = InsertAt(globbed, k, <<p, h>>)
  /\ edits' = edits + 1
  /\ UNCHANGED <<process, scriptConfig, dependencyFingerprints, stored>>

\* A file that matched the globs is deleted.
InputFileRemoved ==
  /\ edits < MaxEdits
  /\ \E k \in DOMAIN globbed : globbed' = RemoveAt(globbed, k)
  /\ edits' = edits + 1
  /\ UNCHANGED <<process, scriptConfig, dependencyFingerprints, stored>>

\* A file that matches the globs is written.
InputFileEdited ==
  /\ edits < MaxEdits
  /\ \E k \in DOMAIN globbed :
       \E h \in Contents \ {globbed[k][2]} :
         globbed' = [globbed EXCEPT ![k] = <<globbed[k][1], h>>]
  /\ edits' = edits + 1
  /\ UNCHANGED <<process, scriptConfig, dependencyFingerprints, stored>>

\* The config gains a dependency on a script it did not depend on.
DependencyAdded ==
  /\ edits < MaxEdits
  /\ \E r \in Refs \ {dependencyFingerprints[k].name :
                         k \in DOMAIN dependencyFingerprints},
        c \in BOOLEAN, t \in BOOLEAN,
        k \in 1..(Len(dependencyFingerprints) + 1) :
       dependencyFingerprints' =
         InsertAt(dependencyFingerprints, k,
                  [name |-> r, cascade |-> c, fullyTracked |-> t, hash |-> 1])
  /\ edits' = edits + 1
  /\ UNCHANGED <<process, scriptConfig, globbed, stored>>

\* The config loses a dependency.
DependencyRemoved ==
  /\ edits < MaxEdits
  /\ \E k \in DOMAIN dependencyFingerprints :
       dependencyFingerprints' = RemoveAt(dependencyFingerprints, k)
  /\ edits' = edits + 1
  /\ UNCHANGED <<process, scriptConfig, globbed, stored>>

\* A dependency resolves to another fingerprint.
DependencyChanged ==
  /\ edits < MaxEdits
  /\ \E k \in DOMAIN dependencyFingerprints, t \in BOOLEAN, h \in 1..2 :
       /\ <<t, h>> # Hash(dependencyFingerprints[k])
       /\ dependencyFingerprints' =
            [dependencyFingerprints EXCEPT ![k].fullyTracked = t,
                                           ![k].hash = h]
  /\ edits' = edits + 1
  /\ UNCHANGED <<process, scriptConfig, globbed, stored>>

\* The executor shuffles the dependencies, the glob lists the files in
\* another order.
Reordered ==
  /\ dependencyFingerprints' \in Orders(dependencyFingerprints)
  /\ globbed' \in Orders(globbed)
  /\ UNCHANGED <<process, scriptConfig, stored, edits>>

FpNext ==
  \/ ProcessChanges
  \/ ConfigEdited
  \/ InputFileAdded
  \/ InputFileRemoved
  \/ InputFileEdited
  \/ DependencyAdded
  \/ DependencyRemoved
  \/ DependencyChanged
  \/ Reordered

\* The one input file of the standard script, as its glob lists it.
Glob(c) == <<<<1, c>>>>

VARIABLES
  script,           \* the config of the standard script
  depFingerprints,  \* the fingerprints its dependencies resolved to
  content,          \* the content of its input file
  fpFile,           \* the fingerprint file on disk (NoFile: absent)
  cache,            \* the fingerprints that have a cache entry
  outcome,          \* of the most recent execution: "none", "fresh", "cached",
                    \* "running", "ran", "failed", "killed"
  previous,         \* the outcome of the execution before it
  current,          \* the fingerprint the most recent execution computed
  executions,       \* number of executions of the script
  invocations,      \* number of times its command was spawned
  changedSinceRun   \* the input file changed since the most recent execution
                    \* computed its fingerprint

runVars == <<script, depFingerprints, content, fpFile, cache, outcome,
             previous, current, executions, invocations, changedSinceRun>>

RunInit ==
  /\ script \in {s \in ScriptConfig :
                   s.command = "cmd" /\ s.service = "undefined"}
  /\ depFingerprints \in DependencyFingerprints
  /\ content = 1
  /\ fpFile = NoFile
  /\ cache = {}
  /\ outcome = "none"
  /\ previous = "none"
  /\ current = Compute(script, depFingerprints, Glob(content))
  /\ executions = 0
  /\ invocations = 0
  /\ changedSinceRun = FALSE

Succeeded == {"fresh", "cached", "ran"}

\* The outcome decided for fingerprint fp.
Decide(fp, file, entries) ==
  IF file # NoFile /\ Equal(FromString(file), fp) /\ fp.fullyTracked
  THEN "fresh"
  ELSE IF fp.fullyTracked /\ String(fp) \in entries THEN "cached"
  ELSE "run"

\* The fingerprint file once the child is spawned.
\* The fingerprint file left in place when the child is spawned.
FileAtSpawnKept(file) == file
FileAtSpawn(file) == NoFile

\* One execution of the script up to the end of the decision: fingerprint,
\* then fresh, cached (outputs restored, fingerprint file written) or run
\* (fingerprint file deleted, child spawned).
StandardExecute ==
  /\ outcome # "running"
  /\ executions < MaxExecutions
  /\ LET fp == Compute(script, depFingerprints, Glob(content))
         decision == Decide(fp, fpFile, cache)
     IN /\ current' = fp
        /\ outcome' = IF decision = "run" THEN "running" ELSE decision
        /\ fpFile' = CASE decision = "fresh" -> fpFile
                       [] decision = "cached" -> String(fp)
                       [] OTHER -> FileAtSpawn(fpFile)
        /\ invocations' = IF decision = "run" THEN invocations + 1
                          ELSE invocations
  /\ previous' = outcome
  /\ executions' = executions + 1
  /\ changedSinceRun' = FALSE
  /\ UNCHANGED <<script, depFingerprints, content, cache>>

\* The child exits with code 0: cache entry if fully tracked, and the
\* fingerprint file is written.
ChildExitsClean ==
  /\ outcome = "running"
  /\ outcome' = "ran"
  /\ cache' = IF current.fullyTracked THEN cache \cup {String(current)}
              ELSE cache
  /\ fpFile' = String(current)
  /\ UNCHANGED <<script, depFingerprints, content, previous, current,
                 executions, invocations, changedSinceRun>>

\* The child exits with another code.
ChildExitsNonZero ==
  /\ outcome = "running"
  /\ outcome' = "failed"
  /\ UNCHANGED <<script, depFingerprints, content, fpFile, cache, previous,
                 current, executions, invocations, changedSinceRun>>

\* The child is killed: by a signal, or by the abort of the host.
ChildKilled ==
  /\ outcome = "running"
  /\ outcome' = "killed"
  /\ UNCHANGED <<script, depFingerprints, content, fpFile, cache, previous,
                 current, executions, invocations, changedSinceRun>>

\* The user edits the input file.
InputChanges(c) ==
  /\ c # content
  /\ content' = c
  /\ changedSinceRun' = TRUE
  /\ UNCHANGED <<script, depFingerprints, fpFile, cache, outcome, previous,
                 current, executions, invocations>>

RunNext ==
  \/ StandardExecute
  \/ ChildExitsClean
  \/ ChildExitsNonZero
  \/ ChildKilled
  \/ \E c \in Contents : InputChanges(c)

(***************************************************************************)
(* Watcher                                                                 *)
(***************************************************************************)
WatcherState ==
  {"initial", "watching", "debouncing", "running", "queued", "aborted"}

VARIABLES
  watcher   \* the fields of the Watcher, and what its run is doing

watchVars == <<watcher>>

\* The Watcher as constructed.
NewWatcher ==
  [ state |-> "initial",
    debounceTimeoutId |-> 0,            \* 0: undefined
    timeouts |-> {},                    \* the timeouts set and not cleared
    latestRootScriptConfig |-> 0,       \* 0: undefined, else the manifest read
    manifest |-> 1,                     \* the manifest on disk
    reading |-> 0,                      \* the manifest a running analysis met
    configFilesWatcher |-> FALSE,       \* a watcher of the manifests exists
    inputFileWatchers |-> FALSE,        \* watchers of input files exist
    executor |-> FALSE,                 \* #executor is defined
    finished |-> FALSE,                 \* #finished is resolved
    task |-> "none",                    \* "analyzing", "executing": awaited
    threw |-> FALSE,                    \* an Error was thrown
    watchCalled |-> FALSE,
    called |-> "none",                  \* the handler that ran last
    fileEventSinceRun |-> FALSE,        \* a change event since the last run start
    manifestEventsSinceRun |-> {} ]     \* what the watcher was doing at each
                                        \* manifest event since the last run start

Manifests == 1..NumManifests

WatchInit == watcher = NewWatcher

\* The id setTimeout returns.
NewTimeout(w) ==
  IF w.timeouts = {} THEN 1
  ELSE LET top == CHOOSE t \in w.timeouts : \A u \in w.timeouts : u <= t
       IN IF top < MaxTimers THEN top + 1 ELSE MaxTimers

\* #startDebounce
StartDebounce(w) ==
  IF w.debounceTimeoutId # 0
  THEN Throw(w)
  ELSE [w EXCEPT !.debounceTimeoutId = NewTimeout(w),
                 !.timeouts = w.timeouts \cup {NewTimeout(w)}]

\* #cancelDebounce
CancelDebounce(w) ==
  [w EXCEPT !.timeouts = w.timeouts \ {w.debounceTimeoutId},
            !.debounceTimeoutId = 0]

\* #analyze up to its await
WatcherAnalyze(w) ==
  IF w.state # "running"
  THEN Throw(w)
  ELSE [w EXCEPT !.task = "analyzing", !.reading = w.manifest]

\* #execute up to its await
WatcherExecute(w) ==
  IF w.state # "running"
  THEN Throw(w)
  ELSE [w EXCEPT !.executor = TRUE, !.task = "executing"]

\* #startRun
StartRun(w) ==
  IF w.state \in {"initial", "debouncing"}
  THEN LET r == [w EXCEPT !.state = "running",
                          !.fileEventSinceRun = FALSE,
                          !.manifestEventsSinceRun = {}]
       IN IF r.latestRootScriptConfig = 0
          THEN WatcherAnalyze(r)
          ELSE WatcherExecute(r)
  ELSE Throw(w)

\* #onDebounced
OnDebounced(w) ==
  IF w.state = "debouncing"
  THEN StartRun([w EXCEPT !.debounceTimeoutId = 0])
  ELSE Throw(w)

\* #onRunDone with a run that ends in 'running' debounced into another run.
OnRunDoneReruns(w) ==
  CASE w.state = "queued" -> StartDebounce([w EXCEPT !.state = "debouncing"])
    [] w.state = "running" -> StartDebounce([w EXCEPT !.state = "debouncing"])
    [] w.state = "aborted" -> [w EXCEPT !.finished = TRUE]
    [] OTHER -> Throw(w)

\* #onRunDone
OnRunDone(w) ==
  CASE w.state = "queued" -> StartDebounce([w EXCEPT !.state = "debouncing"])
    [] w.state = "running" -> [w EXCEPT !.state = "watching"]
    [] w.state = "aborted" -> [w EXCEPT !.finished = TRUE]
    [] OTHER -> Throw(w)

\* #fileChanged starting the debounce during a run as it does after one.
FileChangedDebouncesInRun(w) ==
  CASE w.state \in {"watching", "running"} ->
         StartDebounce([w EXCEPT !.state = "debouncing"])
    [] w.state = "debouncing" -> StartDebounce(CancelDebounce(w))
    [] w.state \in {"queued", "aborted"} -> w
    [] OTHER -> Throw(w)

\* #fileChanged with 'aborted' handled like 'watching'.
FileChangedAfterAbort(w) ==
  CASE w.state \in {"watching", "aborted"} ->
         StartDebounce([w EXCEPT !.state = "debouncing"])
    [] w.state = "debouncing" -> StartDebounce(CancelDebounce(w))
    [] w.state = "running" -> [w EXCEPT !.state = "queued"]
    [] w.state = "queued" -> w
    [] OTHER -> Throw(w)

\* #fileChanged
FileChanged(w) ==
  CASE w.state = "watching" -> StartDebounce([w EXCEPT !.state = "debouncing"])
    [] w.state = "debouncing" -> StartDebounce(CancelDebounce(w))
    [] w.state = "running" -> [w EXCEPT !.state = "queued"]
    [] w.state \in {"queued", "aborted"} -> w
    [] OTHER -> Throw(w)

\* #onConfigFileChanged
OnConfigFileChanged(w) ==
  FileChanged([w EXCEPT !.latestRootScriptConfig = 0])

\* The rest of #analyze, once analyzer.analyze() has resolved: with errors
\* (config 0) or with the config of a manifest it read.
OnAnalyzed(w, config) ==
  LET a == [w EXCEPT !.task = "none", !.reading = 0]
      ok == config # 0
  IN IF a.state = "aborted" THEN a
     ELSE LET c == [a EXCEPT !.configFilesWatcher = TRUE]
          IN IF ~ok THEN OnRunDone(c)
             ELSE WatcherExecute([c EXCEPT !.latestRootScriptConfig = config,
                                           !.inputFileWatchers = TRUE])

\* The rest of #execute, once executor.execute() has resolved.
OnExecuted(w) == OnRunDone([w EXCEPT !.task = "none"])

\* abort()
WatcherAbort(w) ==
  IF w.state = "aborted" THEN w
  ELSE LET a == [w EXCEPT !.executor = FALSE]
       IN CASE a.state \in {"debouncing", "watching"} ->
                 [(IF a.state = "debouncing" THEN CancelDebounce(a) ELSE a)
                    EXCEPT !.state = "aborted", !.finished = TRUE]
            [] a.state \in {"running", "queued"} ->
                 [a EXCEPT !.state = "aborted"]
            [] OTHER -> Throw(a)

\* watch()
Watch ==
  /\ ~watcher.watchCalled
  /\ watcher' = StartRun([watcher EXCEPT !.watchCalled = TRUE,
                                          !.called = "watch"])

\* A watched input file changes.
InputFileChanges ==
  /\ watcher.inputFileWatchers
  /\ watcher' = FileChanged([watcher EXCEPT !.fileEventSinceRun = TRUE,
                                             !.called = "fileChanged"])

\* A watched manifest is written.
ConfigFileChanges ==
  /\ watcher.configFilesWatcher
  /\ \E m \in Manifests \ {watcher.manifest} :
       watcher' = OnConfigFileChanged(
                    [watcher EXCEPT
                       !.manifest = m,
                       !.called = "onConfigFileChanged",
                       !.fileEventSinceRun = TRUE,
                       !.manifestEventsSinceRun =
                          @ \cup {IF watcher.task = "none"
                                  THEN watcher.state
                                  ELSE watcher.task}])

\* A timeout that was not cleared expires.
DebounceFires ==
  \E t \in watcher.timeouts :
    watcher' = OnDebounced([watcher EXCEPT !.timeouts = watcher.timeouts \ {t},
                                           !.called = "onDebounced"])

\* analyzer.analyze() resolves, with a config or with errors.
AnalysisCompletes ==
  /\ watcher.task = "analyzing"
  /\ \E config \in {0, watcher.reading, watcher.manifest} :
       watcher' = OnAnalyzed([watcher EXCEPT !.called = "analyze"], config)

\* executor.execute() resolves.
ExecutionCompletes ==
  /\ watcher.task = "executing"
  /\ watcher' = OnExecuted([watcher EXCEPT !.called = "execute"])

\* The host calls abort().
AbortCalled ==
  /\ watcher' = WatcherAbort([watcher EXCEPT !.called = "abort"])

WatchNext ==
  \/ Watch
  \/ InputFileChanges
  \/ ConfigFileChanges
  \/ DebounceFires
  \/ AnalysisCompletes
  \/ ExecutionCompletes
  \/ AbortCalled

(***************************************************************************)
(* BaseExecution._executeDependencies                                      *)
(***************************************************************************)
\* Failure objects; two failures are the same number iff they are the same
\* object.
Failures == 1..NumFailures

VARIABLES
  configDependencies, \* this._config.dependencies of the executing script
  dependencyResults,  \* what each executor.execute(dependency) settled with
  executed            \* the call of _executeDependencies and what it returned

depVars == <<configDependencies, dependencyResults, executed>>

\* A promise of Executor.execute() that has not settled.
Pending == [settled |-> FALSE, ok |-> FALSE, value |-> 0, error |-> <<>>]

\* The results Executor.execute() resolves with: a fingerprint, or a
\* non-empty array of distinct failures.
ExecuteResults ==
  {[settled |-> TRUE, ok |-> TRUE, value |-> f, error |-> <<>>] : f \in FPs}
  \cup
  {[settled |-> TRUE, ok |-> FALSE, value |-> 0, error |-> l] :
     l \in {q \in UNION {[1..k -> Failures] : k \in 1..NumFailures} :
              \A a, b \in DOMAIN q : q[a] = q[b] => a = b}}

\* The dependency arrays of an analyzed config: sorted, no reference twice.
SiblingLists ==
  {q \in UNION {[1..k -> Refs] : k \in 0..MaxSiblings} :
     \A a, b \in DOMAIN q : a < b => q[a] < q[b]}

DepInit ==
  /\ configDependencies \in SiblingLists
  /\ dependencyResults = [k \in DOMAIN configDependencies |-> Pending]
  /\ executed = [state |-> "idle", ok |-> FALSE, value |-> <<>>,
                 error |-> <<>>]

DepAtRest == DepInit /\ configDependencies = <<>>

\* errors.add(error) for each error of the list, keeping duplicates.
AddAllKeepDuplicates(errors, list) == errors \o list
\* errors.add(error) for each error of the list: a Set keeps the order of
\* insertion and each object once.
AddAll(errors, list) ==
  LET RECURSIVE Add(_, _)
      Add(acc, k) ==
        IF k > Len(list) THEN acc
        ELSE Add(IF list[k] \in Range(acc) THEN acc
                 ELSE Append(acc, list[k]), k + 1)
  IN Add(errors, 1)

\* The loop over dependencyResults: the pairs of the successes and the
\* failures of the others.
RECURSIVE Collect(_, _, _, _, _)
Collect(deps, results, i, pairs, errors) ==
  IF i > Len(results) THEN [pairs |-> pairs, errors |-> errors]
  ELSE IF ~results[i].ok
       THEN Collect(deps, results, i + 1, pairs,
                    AddAll(errors, results[i].error))
       ELSE Collect(deps, results, i + 1,
                    Append(pairs, <<deps[i], results[i].value>>), errors)

\* What _executeDependencies returns once Promise.all has resolved.
ExecuteDependenciesReturn(deps, results) ==
  LET c == Collect(deps, results, 1, <<>>, <<>>)
  IN IF Len(c.errors) > 0
     THEN [state |-> "returned", ok |-> FALSE, value |-> <<>>,
           error |-> c.errors]
     ELSE [state |-> "returned", ok |-> TRUE, value |-> c.pairs,
           error |-> <<>>]

\* _executeDependencies up to its await: the dependency array is shuffled
\* and every dependency is handed to the executor.
DependenciesRequested ==
  /\ executed.state = "idle"
  /\ configDependencies' \in Orders(configDependencies)
  /\ executed' = [executed EXCEPT !.state = "awaiting"]
  /\ UNCHANGED dependencyResults

\* The execution of the k-th dependency settles.
DependencySettles(k) ==
  /\ executed.state = "awaiting"
  /\ k \in DOMAIN dependencyResults
  /\ ~dependencyResults[k].settled
  /\ \E r \in ExecuteResults :
       dependencyResults' = [dependencyResults EXCEPT ![k] = r]
  /\ UNCHANGED <<configDependencies, executed>>

\* Promise.all resolves, the rest of _executeDependencies runs.
DependenciesSettled ==
  /\ executed.state = "awaiting"
  /\ \A k \in DOMAIN dependencyResults : dependencyResults[k].settled
  /\ executed' = ExecuteDependenciesReturn(configDependencies,
                                           dependencyResults)
  /\ UNCHANGED <<configDependencies, dependencyResults>>

DepNext ==
  \/ DependenciesRequested
  \/ \E k \in 1..MaxSiblings : DependencySettles(k)
  \/ DependenciesSettled

(***************************************************************************)
(* GitHubActionsCache                                                      *)
(***************************************************************************)
\* What a request resolves with: 0 is a connection error (res.ok false), the
\* other numbers are the status code of the response.
Responses == {0, 200, 204, 409, 429, 500, 503}

CacheCalls == 1..MaxCacheCalls

VARIABLES
  serviceIsDown,  \* #serviceIsDown
  cacheCalls,     \* cacheCalls[c]: the c-th call of get() or set()
  observed        \* a connection error, 429 or 503 has been received

cacheVars == <<serviceIsDown, cacheCalls, observed>>

CacheInit ==
  /\ serviceIsDown = FALSE
  /\ cacheCalls = [c \in CacheCalls |->
                     [op |-> "none", pc |-> "idle", result |-> "none",
                      sent |-> 0, chunks |-> 0, begunAfter |-> FALSE]]
  /\ observed = FALSE

\* isOk
IsOk(res) == res >= 200 /\ res < 300

\* #maybeHandleServiceDown giving up on 429 only.
ServiceDownRateLimitOnly(res) == res = 429
\* #maybeHandleServiceDown returns false (and sets #serviceIsDown).
ServiceDown(res) == res = 0 \/ res = 429 \/ res = 503

\* The call returns (or throws) with the result r.
Returns(call, r) == [call EXCEPT !.pc = "done", !.result = r]

\* The call sends a request and awaits its response at pc.
Requests(call, pc) == [call EXCEPT !.pc = pc, !.sent = call.sent + 1]

\* A response arrives at call c, which goes on as `next`.
Responds(c, res, next) ==
  /\ cacheCalls' = [cacheCalls EXCEPT ![c] = next]
  /\ serviceIsDown' = (serviceIsDown \/ ServiceDown(res))
  /\ observed' = (observed \/ res \in {0, 429, 503})

\* get() up to its await.
CacheGet(c) ==
  /\ cacheCalls[c].pc = "idle"
  /\ LET call == [cacheCalls[c] EXCEPT !.op = "get", !.begunAfter = observed]
     IN cacheCalls' = [cacheCalls EXCEPT ![c] =
          IF serviceIsDown THEN Returns(call, "miss")
          ELSE Requests(call, "get")]
  /\ UNCHANGED <<serviceIsDown, observed>>

\* The rest of get() once the response is there.
GetResponds(c, res) ==
  /\ cacheCalls[c].pc = "get"
  /\ Responds(c, res,
       IF ServiceDown(res) THEN Returns(cacheCalls[c], "miss")
       ELSE IF res = 204 THEN Returns(cacheCalls[c], "miss")
       ELSE IF IsOk(res) THEN Returns(cacheCalls[c], "hit")
       ELSE Returns(cacheCalls[c], "throw"))

\* set() up to its first await.
CacheSet(c) ==
  /\ cacheCalls[c].pc = "idle"
  /\ LET call == [cacheCalls[c] EXCEPT !.op = "set", !.begunAfter = observed]
     IN cacheCalls' = [cacheCalls EXCEPT ![c] =
          IF serviceIsDown THEN Returns(call, "false")
          ELSE [call EXCEPT !.pc = "tarball"]]
  /\ UNCHANGED <<serviceIsDown, observed>>

\* The tarball is made: #reserveUploadAndCommitTarball up to the await of
\* #reserveCacheEntry.
TarballMade(c, tooBig, chunks) ==
  /\ cacheCalls[c].pc = "tarball"
  /\ cacheCalls' = [cacheCalls EXCEPT ![c] =
       IF tooBig THEN Returns(cacheCalls[c], "false")
       ELSE Requests([cacheCalls[c] EXCEPT !.chunks = chunks], "reserve")]
  /\ UNCHANGED <<serviceIsDown, observed>>

\* The upload of the next chunk, or the commit when none is left.
UploadOrCommit(call) ==
  IF call.chunks > 0
  THEN Requests([call EXCEPT !.chunks = call.chunks - 1], "upload")
  ELSE Requests(call, "commit")

\* #reserveCacheEntry once the response is there, and what follows it.
ReserveResponds(c, res) ==
  /\ cacheCalls[c].pc = "reserve"
  /\ Responds(c, res,
       IF ServiceDown(res) THEN Returns(cacheCalls[c], "false")
       ELSE IF res = 204 THEN Returns(cacheCalls[c], "throw")
       ELSE IF IsOk(res) THEN UploadOrCommit(cacheCalls[c])
       ELSE IF res = 409 THEN Returns(cacheCalls[c], "false")
       ELSE Returns(cacheCalls[c], "throw"))

\* #upload once the response to a chunk is there.
UploadResponds(c, res) ==
  /\ cacheCalls[c].pc = "upload"
  /\ Responds(c, res,
       IF ServiceDown(res) THEN Returns(cacheCalls[c], "false")
       ELSE IF ~IsOk(res) THEN Returns(cacheCalls[c], "throw")
       ELSE UploadOrCommit(cacheCalls[c]))

\* #commit once the response is there.
CommitResponds(c, res) ==
  /\ cacheCalls[c].pc = "commit"
  /\ Responds(c, res,
       IF ServiceDown(res) THEN Returns(cacheCalls[c], "false")
       ELSE IF ~IsOk(res) THEN Returns(cacheCalls[c], "throw")
       ELSE Returns(cacheCalls[c], "true"))

CacheNext ==
  \E c \in CacheCalls :
     \/ CacheGet(c)
     \/ CacheSet(c)
     \/ \E tooBig \in BOOLEAN, chunks \in 0..MaxChunks :
          TarballMade(c, tooBig, chunks)
     \/ \E res \in Responses :
          \/ GetResponds(c, res)
          \/ ReserveResponds(c, res)
          \/ UploadResponds(c, res)
          \/ CommitResponds(c, res)

(***************************************************************************)
(* DefaultLogger and MetricsLogger: the summary                            *)
(***************************************************************************)
VARIABLES
  counts,   \* _totalScripts, _ranScripts, ... of the DefaultLogger
  metrics,  \* the count of each metric of the MetricsLogger
  logged,   \* number of events logged so far
  printed   \* the last summary printed: by whom, from which counts

logVars == <<counts, metrics, logged, printed>>

SuccessReasons == {"exit-zero", "no-command", "fresh", "cached"}

LogInit ==
  /\ counts = [total |-> 0, ran |-> 0, fresh |-> 0, cached |-> 0]
  /\ metrics = [success |-> 0, ran |-> 0, fresh |-> 0, cached |-> 0]
  /\ logged = 0
  /\ printed = [by |-> "none", whole |-> 0, parts |-> <<>>,
                percents |-> <<>>]

\* DefaultLogger._calculatePercentage: Math.floor(part / whole) * 100
CalculatePercentage(part, whole) ==
  IF whole = 0 THEN 0 ELSE (part \div whole) * 100

\* MetricsLogger._calculatePercentage: Math.floor((numerator / denominator)
\* * 100). For denominators below 50 the double arithmetic gives the floor
\* of the exact quotient.
MetricsCalculatePercentage(numerator, denominator) ==
  IF denominator = 0 THEN 0 ELSE (numerator * 100) \div denominator

\* DefaultLogger.log of a 'success' event.
DefaultLog(c, reason) ==
  CASE reason = "exit-zero" ->
         [c EXCEPT !.ran = c.ran + 1, !.total = c.total + 1]
    [] reason = "fresh" ->
         [c EXCEPT !.fresh = c.fresh + 1, !.total = c.total + 1]
    [] reason = "cached" ->
         [c EXCEPT !.cached = c.cached + 1, !.total = c.total + 1]
    [] OTHER -> c

\* MetricsLogger._updateMetrics of a 'success' event.
UpdateMetrics(m, reason) ==
  [success |-> m.success + 1,
   ran |-> m.ran + (IF reason = "exit-zero" THEN 1 ELSE 0),
   fresh |-> m.fresh + (IF reason = "fresh" THEN 1 ELSE 0),
   cached |-> m.cached + (IF reason = "cached" THEN 1 ELSE 0)]

\* MetricsLogger.log: the metrics are updated and the event is passed on to
\* the DefaultLogger.
LogSuccess(reason) ==
  /\ logged < MaxEvents
  /\ logged' = logged + 1
  /\ metrics' = UpdateMetrics(metrics, reason)
  /\ counts' = DefaultLog(counts, reason)
  /\ UNCHANGED printed

\* DefaultLogger.printSummary
PrintSummary ==
  /\ printed' =
       [by |-> "summary",
        whole |-> counts.total,
        parts |-> <<counts.ran, counts.fresh, counts.cached>>,
        percents |-> <<CalculatePercentage(counts.ran, counts.total),
                       CalculatePercentage(counts.fresh, counts.total),
                       CalculatePercentage(counts.cached, counts.total)>>]
  /\ UNCHANGED <<counts, metrics, logged>>

\* MetricsLogger.printMetrics: nothing is printed without a success, and the
\* metrics are reset.
PrintMetrics ==
  /\ printed' =
       IF metrics.success = 0 THEN printed
       ELSE [by |-> "metrics",
             whole |-> metrics.success,
             parts |-> <<metrics.ran, metrics.fresh, metrics.cached>>,
             percents |->
               <<MetricsCalculatePercentage(metrics.ran, metrics.success),
                 MetricsCalculatePercentage(metrics.fresh, metrics.success),
                 MetricsCalculatePercentage(metrics.cached, metrics.success)>>]
  /\ metrics' = [success |-> 0, ran |-> 0, fresh |-> 0, cached |-> 0]
  /\ UNCHANGED <<counts, logged>>

LogNext ==
  \/ \E reason \in SuccessReasons : LogSuccess(reason)
  \/ PrintSummary
  \/ PrintMetrics

\* The inputs of Fingerprint.compute at rest.
FpAtRest ==
  /\ process = ThisProcess
  /\ scriptConfig = [command |-> "cmd", files |-> "some", output |-> "defined",
                     service |-> "undefined", extraArgs |-> <<>>,
                     clean |-> "true", env |-> <<>>]
  /\ dependencyFingerprints = <<>>
  /\ globbed = <<>>
  /\ stored = NoFile
  /\ edits = 0

vars == <<svcVars, anVars, semVars, runVars, watchVars, fpVars, depVars, cacheVars, logVars>>

\* The worker pool and the standard script while the model follows another
\* component.
SemAtRest == SemInit /\ numSlots = 1
RunAtRest ==
  /\ RunInit
  /\ depFingerprints = <<>>
  /\ script = [command |-> "cmd", files |-> "some", output |-> "defined",
               service |-> "undefined", extraArgs |-> <<>>,
               clean |-> "true", env |-> <<>>]

Init == SvcInit /\ AnInit /\ SemAtRest /\ FpAtRest /\ RunAtRest /\ WatchInit /\ DepAtRest /\ CacheInit /\ LogInit
Next == SvcNext /\ UNCHANGED <<anVars, semVars, runVars, watchVars, fpVars, depVars, cacheVars, logVars>>
Spec == Init /\ [][Next]_vars
SpecOneExecutor ==
  Init /\ [][OneExecutorNext /\ UNCHANGED <<anVars, semVars, runVars, watchVars, fpVars, depVars, cacheVars, logVars>>]_vars
\* The callbacks of promises that are resolved run, the promises of the
\* dependencies, of the fingerprint and of the started dependency services
\* resolve, and a child that was killed exits.
SvcCallbacks ==
  /\ \E i \in Iters :
       \/ DepsExecuted(i) \/ Fingerprinted(i) \/ AdopteeStopped(i)
       \/ DepsStarted(i) \/ ChildStarted(i) \/ ChildExited(i) \/ Abort(i)
       \/ (killed[i] /\ ProcessExits(i))
  /\ UNCHANGED <<anVars, semVars, runVars, watchVars, fpVars, depVars, cacheVars, logVars>>
SpecLive == Init /\ [][Next]_vars /\ WF_vars(SvcCallbacks)
\* A child process that was spawned reports that it has started, or exits.
ChildSettles ==
  /\ \E c \in Iters : ProcessStarts(c) \/ (child[c] = "spawning" /\ ProcessExits(c))
  /\ UNCHANGED <<anVars, semVars, runVars, watchVars, fpVars, depVars, cacheVars, logVars>>
SpecLiveChild ==
  Init /\ [][Next]_vars /\ WF_vars(SvcCallbacks) /\ WF_vars(ChildSettles)
\* The event loop runs every task that is ready: manifest reads complete and
\* the synchronous cycle check runs on.
AnStep == AnNext /\ UNCHANGED <<semVars, runVars, watchVars, fpVars, depVars, cacheVars, logVars>>
\* _executeDependencies of the execution of script n of an analyzed graph, up
\* to its await: shuffle() reorders the dependency array of the config of n
\* itself, and the dependencies are executed in the new order.
ExecuteDependencies(n) ==
  /\ phase = "done"
  /\ result = "ok"
  /\ n \in placeholders
  /\ \E order \in Orders(dependencies[n]) :
       dependencies' = [dependencies EXCEPT ![n] = order]
  /\ UNCHANGED <<root, phase, placeholders, queue, awaited, upgraded,
                 declared, stack, trail, result, failures, created, enqueued,
                 held>>
  /\ UNCHANGED svcVars
\* An analysis followed by the execution of the graph it returned.
ExecuteNext ==
  \/ AnNext
  \/ \E n \in Scripts : ExecuteDependencies(n)
ExecuteStep == ExecuteNext /\ UNCHANGED <<semVars, runVars, watchVars, fpVars, depVars, cacheVars, logVars>>
SpecExecute == Init /\ [][ExecuteStep]_vars
SpecAnalyzer == Init /\ [][AnStep]_vars /\ WF_vars(AnStep)
SemaphoreInit ==
  SvcInit /\ AnInit /\ SemInit /\ FpAtRest /\ RunAtRest /\ WatchInit /\ DepAtRest /\ CacheInit /\ LogInit
SpecSemaphore ==
  SemaphoreInit /\ [][SemNext /\ UNCHANGED <<svcVars, anVars, runVars, watchVars, fpVars, depVars, cacheVars, logVars>>]_vars
\* setTimeout callbacks run when their time has come, the analysis and the
\* execution of a run complete.
WatchStep == WatchNext /\ UNCHANGED <<svcVars, anVars, semVars, runVars, fpVars, depVars, cacheVars, logVars>>
SpecWatcher ==
  /\ Init
  /\ [][WatchStep]_vars
  /\ WF_vars(DebounceFires /\ UNCHANGED <<svcVars, anVars, semVars, runVars, fpVars, depVars, cacheVars, logVars>>)
  /\ WF_vars(AnalysisCompletes /\ UNCHANGED <<svcVars, anVars, semVars, runVars, fpVars, depVars, cacheVars, logVars>>)
  /\ WF_vars(ExecutionCompletes /\ UNCHANGED <<svcVars, anVars, semVars, runVars, fpVars, depVars, cacheVars, logVars>>)
StandardInit ==
  SvcInit /\ AnInit /\ SemAtRest /\ FpAtRest /\ RunInit /\ WatchInit /\ DepAtRest /\ CacheInit /\ LogInit
FingerprintInit ==
  SvcInit /\ AnInit /\ SemAtRest /\ FpInit /\ RunAtRest /\ WatchInit /\ DepAtRest /\ CacheInit /\ LogInit
FpStep ==
  FpNext /\ UNCHANGED <<svcVars, anVars, semVars, runVars, watchVars, depVars, cacheVars, logVars>>
SpecFingerprint == FingerprintInit /\ [][FpStep]_vars
DependenciesInit ==
  SvcInit /\ AnInit /\ SemAtRest /\ FpAtRest /\ RunAtRest /\ WatchInit /\ DepInit /\ CacheInit /\ LogInit
DepStep ==
  DepNext /\ UNCHANGED <<svcVars, anVars, semVars, runVars, watchVars, fpVars, cacheVars, logVars>>
SpecDependencies == DependenciesInit /\ [][DepStep]_vars
CacheStep ==
  CacheNext /\ UNCHANGED <<svcVars, anVars, semVars, runVars, watchVars, fpVars, depVars, logVars>>
SpecCache == Init /\ [][CacheStep]_vars
LogStep ==
  LogNext /\ UNCHANGED <<svcVars, anVars, semVars, runVars, watchVars, fpVars, depVars, cacheVars>>
SpecLogger == Init /\ [][LogStep]_vars
SpecStandard ==
  StandardInit /\ [][RunNext /\ UNCHANGED <<svcVars, anVars, semVars, watchVars, fpVars, depVars, cacheVars, logVars>>]_vars

(***************************************************************************)
(* Properties of the service lifecycle                                     *)
(***************************************************************************)

ClaimedEdges ==
  { <<"initial", "executingDeps">>,
    <<"executingDeps", "fingerprinting">>, <<"executingDeps", "failed">>,
    <<"fingerprinting", "unstarted">>, <<"fingerprinting", "stoppingAdoptee">>,
    <<"stoppingAdoptee", "unstarted">>,
    <<"unstarted", "depsStarting">>,
    <<"depsStarting", "starting">>,
    <<"starting", "started">>,
    <<"started", "failing">>, <<"started", "stopping">>, <<"started", "detached">>,
    <<"failing", "failed">>,
    <<"stopping", "stopped">> }

\* The edges abort takes before the child is started, abort while starting,
\* and the exit of a started child.
AmendedEdges ==
  ClaimedEdges \cup
  { <<"executingDeps", "stopped">>, <<"fingerprinting", "stopped">>,
    <<"stoppingAdoptee", "stopped">>, <<"unstarted", "stopped">>,
    <<"depsStarting", "stopped">>,
    <<"starting", "stopping">>,
    <<"started", "failed">> }

\* The state assignments execution i makes in this step follow edges of E. A
\* persistent service assigns 'unstarted' and, calling start() in the same
\* handler, 'depsStarting'.
FollowsEdges(E, i) ==
  LET s == exec[i].state
      t == exec'[i].state
  IN s # t =>
       \/ <<s, t>> \in E
       \/ /\ exec[i].isPersistent
          /\ <<s, "unstarted">> \in E
          /\ <<"unstarted", t>> \in E

\* C8 as stated: every state change follows an edge of the listed graph.
C8_ListedEdgesOnly == [][\A i \in Iters : FollowsEdges(ClaimedEdges, i)]_vars

\* C8 amended: every state change follows a listed edge, or is an abort
\* before the child exists (to stopped), an abort while starting (to
\* stopping), or the exit of a started child (to failed); stopped, failed and
\* detached are never left.
C8_AmendedEdgesOnly == [][\A i \in Iters : FollowsEdges(AmendedEdges, i)]_vars

\* Execution 2 adopted the child of execution 1 and was then stopped.
C8_Witness ==
  /\ exec[1].state = "detached"
  /\ exec[2].state = "stopped"
  /\ exec[2].terminated = "ok"

\* C9: stopped implies terminated resolved ok, failed implies terminated
\* resolved with the failure, and terminated is never resolved twice.
C9_TerminatedResolvedOnce ==
  \A i \in Iters :
    /\ exec[i].state = "stopped" => exec[i].terminated = "ok"
    /\ exec[i].state = "failed" => exec[i].terminated = "err"
    /\ exec[i].terminatedResolves <= 1

\* The child processes that are running.
LiveChildren == {c \in Iters : child[c] \in {"spawning", "started"}}

\* C10: at most one live child process belongs to the service, and no child
\* is held by two executions.
C10_OneLiveChild ==
  /\ Cardinality(LiveChildren) <= 1
  /\ \A i, j \in Iters :
       (i # j /\ exec[i].child # 0) => exec[i].child # exec[j].child


(***************************************************************************)
(* Properties of the analyzer                                              *)
(***************************************************************************)
Successors(S) == UNION {Range(declared[n]) : n \in S}

RECURSIVE Closure(_)
Closure(S) ==
  LET T == S \cup Successors(S) IN IF T = S THEN S ELSE Closure(T)

\* The scripts reachable from n through one or more declared dependencies.
ReachableFrom(n) == Closure(Range(declared[n]))

OnCycle(n) == n \in ReachableFrom(n)

CycleReachable == \E n \in {root} \cup ReachableFrom(root) : OnCycle(n)

\* C6: analyze() terminates; it succeeds exactly when no dependency cycle is
\* reachable from the root, and otherwise returns exactly one failure, of
\* reason 'cycle'.
C6_AnalyzeDecidesCycles ==
  /\ [](phase = "done" =>
          /\ (result = "ok") <=> ~CycleReachable
          /\ result = "ok" => failures = <<>>
          /\ result # "ok" =>
               /\ result = "cycle"
               /\ Len(failures) = 1
               /\ failures[1].reason = "cycle")
  /\ <>(phase = "done")

\* The analysis ended with a cycle failure for a root that is not itself on
\* the cycle.
C6_Witness ==
  /\ phase = "done"
  /\ result = "cycle"
  /\ ~OnCycle(root)
  /\ Len(declared[root]) > 1

\* C7: the cycle diagnostic has one hop per script on the cycle, from the
\* re-entered script back to itself, and each hop is located at the entry of
\* the current script's declared dependencies that refers to the next script.
C7_CycleHopsLocated ==
  (phase = "done" /\ result = "cycle") =>
    LET hops == failures[1].supplementalLocations
        n == Len(hops)
    IN /\ n > 0
       /\ hops[1].from = failures[1].script
       /\ hops[n].to = failures[1].script
       /\ \A k \in 1..(n - 1) : hops[k].to = hops[k + 1].from
       /\ \A j, k \in 1..n : j # k => hops[j].from # hops[k].from
       /\ \A k \in 1..n :
            /\ hops[k].node \in 1..Len(declared[hops[k].from])
            /\ declared[hops[k].from][hops[k].node] = hops[k].to

(***************************************************************************)
(* Properties of the worker pool                                           *)
(***************************************************************************)

\* C2: a semaphore with numSlots slots never has more than numSlots
\* reservations held at once; a reserve() issued while every slot was held
\* holds a slot only after a reservation was disposed, and a reserve() issued
\* while a slot was free never waits.
C2_SlotsBound ==
  /\ Cardinality(Held) <= numSlots
  /\ \A t \in Tasks :
       /\ (task[t] = "holding" /\ issuedFull[t]) => releasedSince[t]
       /\ task[t] \in {"waiting", "woken"} => issuedFull[t]

\* Every slot is held, one reserve() obtained its slot after waiting for a
\* release and another one is waiting.
C2_Witness ==
  /\ Cardinality(Held) = numSlots
  /\ numSlots > 1
  /\ \E t \in Tasks : task[t] = "holding" /\ issuedFull[t]
  /\ \E t \in Tasks : task[t] = "holding" /\ ~issuedFull[t]
  /\ \E t \in Tasks : task[t] = "waiting"

(***************************************************************************)
(* Properties of the fresh / cached / run decision                         *)
(***************************************************************************)

\* C3: when the most recent execution of a fully tracked script succeeded and
\* its input file has not changed since, a further execution is fresh, spawns
\* no child and leaves the fingerprint file as it is.
C3_RerunIsFresh ==
  [][(/\ executions' = executions + 1
      /\ outcome \in Succeeded
      /\ current.fullyTracked
      /\ ~changedSinceRun)
     => (/\ outcome' = "fresh"
         /\ invocations' = invocations
         /\ fpFile' = fpFile)]_vars

\* execute; execute; execute: one run, then two fresh outcomes.
C3_Witness ==
  /\ executions = 3
  /\ invocations = 1
  /\ outcome = "fresh"
  /\ previous = "fresh"
  /\ current.fullyTracked
  /\ fpFile = String(current)

\* C4: the fingerprint file exists only if the most recent execution
\* completed, and then it is the fingerprint of that execution; while the
\* child runs and after a run that failed or was killed there is no file, and
\* the execution after such a run is not fresh.
C4_FingerprintFileOnlyAfterCompletion ==
  /\ fpFile # NoFile => (outcome \in Succeeded /\ fpFile = String(current))
  /\ outcome \in {"running", "failed", "killed"} => fpFile = NoFile
  /\ outcome = "fresh" => previous \in Succeeded

\* A run that wrote the fingerprint file, then a changed input and a run that
\* was killed, then a further run.
C4_Witness ==
  /\ previous = "killed"
  /\ outcome = "running"
  /\ executions = 3
  /\ invocations = 3
  /\ fpFile = NoFile
  /\ cache # {}

\* The script is not fully tracked according to its config: it declares no
\* files or no output, or a cascading dependency is not fully tracked.
Untracked ==
  \/ script.files = "undefined"
  \/ script.output = "undefined"
  \/ \E k \in DOMAIN depFingerprints :
       depFingerprints[k].cascade /\ ~depFingerprints[k].fullyTracked

C11_AdoptedWithoutRestart ==
  exec[2].child = 1 =>
    /\ ~killed[1]
    /\ child[2] = "none"
    /\ log.started = 1

\* C12: when execution 2 computes another fingerprint than the running service
\* of execution 1 has, child 1 is killed and has exited before child 2 is
\* spawned, and once the service has restarted one 'service-stopped' and, after
\* the one of the first start, one more 'service-started' have been logged.
C12_RestartStopsThenStarts ==
  exec[2].cbAdopteeStopped # "none" =>
    /\ killed[1]
    /\ child[2] # "none" => child[1] \in {"exited", "exitedEarly"}
    /\ exec[2].state = "started" => (log.stopped = 1 /\ log.started = 2)

(***************************************************************************)
(* Properties of abort and of dependency failure                           *)
(***************************************************************************)

\* C13: when abort is delivered to a service in state starting or started,
\* kill() is called on its child and the service is stopping; from stopping
\* the exit of the child leads to stopped.
C13_AbortKillsChild ==
  [][\A i \in Iters :
       /\ (/\ exec[i].cbAbort = "armed"
           /\ exec'[i].cbAbort = "fired"
           /\ exec[i].state \in {"starting", "started"})
          => (/\ killed'[exec[i].child]
              /\ exec'[i].state = "stopping")
       /\ (/\ exec[i].state = "stopping"
           /\ exec[i].cbChildExited = "armed"
           /\ exec'[i].cbChildExited = "fired")
          => exec'[i].state = "stopped"]_vars

\* C15: when the execution of the dependencies fails while the service is in
\* executingDeps, the service becomes failed and the result of execute() is
\* the failure.
C15_DepExecErrFails ==
  [][\A i \in Iters :
       (/\ exec[i].state = "executingDeps"
        /\ exec[i].deferredFingerprint = "pending"
        /\ exec'[i].deferredFingerprint = "err")
       => exec'[i].state = "failed"]_vars

\* C14: once abort has been delivered to a service, the promise _execute()
\* returned is eventually resolved.
C14_ExecuteResolvesAfterAbort ==
  \A i \in Iters :
    (exec[i].cbAbort = "fired") ~>
      (exec[i].deferredFingerprint \in {"ok", "err"})

\* The condition on which the code delivers abort to the service of
\* execution i.
AbortCondition(i) ==
  \/ /\ exec[i].isPersistent
     /\ exec[i].entireExecutionAborted
     /\ exec[i].allConsumersDone
  \/ /\ ~exec[i].isPersistent
     /\ exec[i].allConsumersDone

\* C16 as stated: a started service leaves started once no consumer needs it
\* or once the execution is aborted, persistent or not.
C16_StoppedWhenUnneededOrAborted ==
  \A i \in Iters :
    (/\ exec[i].state = "started"
     /\ exec[i].allConsumersDone \/ exec[i].entireExecutionAborted)
    ~> (exec[i].state # "started")

\* C16 amended: abort is delivered to a non-persistent service only when all
\* its consumers are done, and to a persistent service only when moreover the
\* execution is aborted; delivered to a started service it kills the child
\* and moves the service to stopping; and a started service for which the
\* condition holds does not stay started.
C16_StoppedOnAbortCondition ==
  /\ [][\A i \in Iters :
          (exec[i].cbAbort = "armed" /\ exec'[i].cbAbort = "fired")
          => /\ AbortCondition(i)
             /\ exec[i].state = "started"
                => (exec'[i].state = "stopping" /\ killed'[exec[i].child])]_vars
  /\ \A i \in Iters :
       (exec[i].state = "started" /\ AbortCondition(i))
       ~> (exec[i].state # "started")

\* A persistent service, its consumers done, was stopped by the abort of the
\* execution: its child was killed and is still running.
C16_Witness ==
  /\ exec[1].isPersistent
  /\ exec[1].state = "stopping"
  /\ exec[1].entireExecutionAborted
  /\ exec[1].allConsumersDone
  /\ killed[1]
  /\ child[1] = "started"

\* C17: the getter answers with a fingerprint exactly in the states
\* stoppingAdoptee, unstarted, depsStarting, starting and started, and then
\* with the one computed in the fingerprinting step of that execution; in
\* stopping, stopped, failing, failed and detached it answers undefined, and
\* in initial, executingDeps and fingerprinting it throws.
C17_FingerprintObservable ==
  \A i \in Iters :
    LET e == exec[i]
    IN /\ e.state \in {"stoppingAdoptee", "unstarted", "depsStarting",
                        "starting", "started"}
          => (Fingerprint(e) = e.computed /\ e.computed \in FPs)
       /\ e.state \in {"stopping", "stopped", "failing", "failed", "detached"}
          => Fingerprint(e) = 0
       /\ e.state \in {"initial", "executingDeps", "fingerprinting"}
          => Fingerprint(e) = -1

\* Execution 2 waits for the adoptee's child to stop and shows its own, new
\* fingerprint, the detached adoptee shows none; and a stopping service that
\* had a fingerprint shows none.
C17_Witness ==
  /\ exec[2].state = "stoppingAdoptee"
  /\ Fingerprint(exec[2]) = 2
  /\ exec[1].state = "detached"
  /\ exec[1].computed = 1
  /\ Fingerprint(exec[1]) = 0

(***************************************************************************)
(* Watcher: the states it moves through                                    *)
(***************************************************************************)
\* The transitions of the WatcherState diagram.
WatcherEdges ==
  { <<"initial", "running">>, <<"running", "watching">>,
    <<"running", "queued">>, <<"queued", "debouncing">>,
    <<"watching", "debouncing">>, <<"debouncing", "running">> }

\* A step in which abort() ran and found the watcher in a state other than
\* 'aborted'.
AbortStep ==
  /\ watcher' # watcher
  /\ watcher'.called = "abort"
  /\ watcher' = WatcherAbort([watcher EXCEPT !.called = "abort"])
  /\ watcher.state # "aborted"

\* A step that starts a run.
RunStarts ==
  /\ watcher'.task # "none"
  /\ watcher.task # watcher'.task
  /\ watcher'.called \in {"watch", "onDebounced"}

\* Once aborted the state stays aborted and no run is started.
AbortedIsFinal ==
  watcher.state = "aborted" => watcher'.state = "aborted" /\ ~RunStarts

\* C18 as stated: the state changes only along the edges of the diagram and,
\* on abort(), from any state (initial included) to aborted; once aborted it
\* never changes again and no run is started.
C18_WatcherEdgesAbortFromAny ==
  [][
      /\ watcher.state # watcher'.state =>
          \/ <<watcher.state, watcher'.state>> \in WatcherEdges
          \/ AbortStep /\ watcher'.state = "aborted"
      /\ AbortStep => watcher'.state = "aborted"
      /\ AbortedIsFinal
    ]_vars

\* C18 amended: the state changes only along the edges of the diagram and, on
\* abort(), from watching, debouncing, running or queued to aborted; abort()
\* in initial throws and leaves the state initial; once aborted the state
\* never changes again and no run is started.
C18_WatcherEdgesAbortAfterWatch ==
  [][
      /\ watcher.state # watcher'.state =>
          \/ <<watcher.state, watcher'.state>> \in WatcherEdges
          \/ AbortStep /\ watcher'.state = "aborted"
      /\ AbortStep =>
          IF watcher.state = "initial"
          THEN watcher'.state = "initial" /\ watcher'.threw
          ELSE watcher'.state = "aborted"
      /\ AbortedIsFinal
    ]_vars

\* An aborted watcher has received a file-change event, and a watcher has
\* thrown on abort() before watch().
C18_Witness ==
  /\ watcher.state = "aborted"
  /\ watcher.called = "fileChanged"
  /\ watcher.debounceTimeoutId = 0
  /\ watcher.timeouts = {}

(***************************************************************************)
(* Watcher: debounced runs                                                 *)
(***************************************************************************)
\* A step that takes the watcher into 'running' after its first run.
Reruns ==
  /\ watcher.state \notin {"initial", "running"}
  /\ watcher'.state = "running"

\* C19: at most one debounce timer is pending, and it is the one the newest
\* event started; 'running' is entered again only from 'debouncing', by the
\* expiry of that timer, with a file-change event since the previous entry;
\* and a watcher that is debouncing goes on to one run unless it is aborted.
C19_OneRunPerBatch ==
  /\ [][
        /\ watcher.timeouts \subseteq {watcher.debounceTimeoutId}
        /\ (watcher.state = "debouncing") = (watcher.timeouts # {})
        /\ Reruns =>
             /\ watcher.state = "debouncing"
             /\ watcher'.called = "onDebounced"
             /\ watcher.timeouts = {watcher.debounceTimeoutId}
             /\ watcher'.timeouts = {}
             /\ watcher.fileEventSinceRun
             /\ ~watcher'.fileEventSinceRun
      ]_vars
  /\ (watcher.state = "debouncing") ~> (watcher.state \in {"running", "aborted"})

\* The debounce timer has expired and the run it started executes the cached
\* root config.
C19_Witness ==
  /\ watcher.state = "running"
  /\ watcher.called = "onDebounced"
  /\ watcher.debounceTimeoutId = 0
  /\ watcher.manifestEventsSinceRun = {}
  /\ watcher.task = "executing"

(***************************************************************************)
(* Watcher: manifest changes                                               *)
(***************************************************************************)
\* C20: a run entered after a manifest event starts with the analysis, and
\* after a manifest event in watching, debouncing or running (during the
\* analysis or the execution) such a run does start, unless the watcher is
\* aborted.
C20_ManifestEventReanalyzes ==
  /\ [][(Reruns /\ watcher.manifestEventsSinceRun # {}) =>
          watcher'.task = "analyzing"]_vars
  /\ (/\ watcher.manifestEventsSinceRun # {}
      /\ watcher.state # "aborted")
       ~> \/ watcher.state = "aborted"
          \/ /\ watcher.task = "analyzing"
             /\ watcher.manifestEventsSinceRun = {}

(***************************************************************************)
(* Watcher: events during a run                                            *)
(***************************************************************************)
\* A step in which a file-change event (input file or manifest) is handled.
EventStep ==
  /\ watcher' # watcher
  /\ watcher'.called \in {"fileChanged", "onConfigFileChanged"}
  /\ watcher'.fileEventSinceRun

\* C21: a file-change event during the analysis or the execution of a run
\* makes the watcher queued and leaves the run going; queued is left only
\* when that run finishes, for debouncing with one timer, or on abort(); and
\* a queued watcher does reach debouncing and then one further run, unless
\* it is aborted first.
C21_QueuedRunsOnceMore ==
  /\ [][
        /\ (EventStep /\ watcher.state = "running") =>
             /\ watcher.task # "none"
             /\ watcher'.state = "queued"
             /\ watcher'.task = watcher.task
        /\ (watcher.state = "queued" /\ watcher'.state # "queued") =>
             \/ AbortStep /\ watcher'.state = "aborted"
             \/ /\ watcher'.state = "debouncing"
                /\ watcher'.called \in {"analyze", "execute"}
                /\ watcher'.task = "none"
                /\ watcher'.timeouts = {watcher'.debounceTimeoutId}
      ]_vars
  /\ (watcher.state = "queued") ~> (watcher.state \in {"debouncing", "aborted"})
  /\ (watcher.state = "debouncing") ~> (watcher.state \in {"running", "aborted"})

(***************************************************************************)
(* Watcher: the promise of watch()                                         *)
(***************************************************************************)
\* C22: abort() in watching or debouncing resolves the promise of watch() at
\* once, and an aborted watcher's promise is eventually resolved.
C22_FinishedAfterAbort ==
  /\ [][(AbortStep /\ watcher.state \in {"watching", "debouncing"}) =>
          watcher'.finished]_vars
  /\ (watcher.state = "aborted") ~> watcher.finished

(***************************************************************************)
(* Fingerprint.difference                                                  *)
(***************************************************************************)
\* The fingerprint of the inputs as they are, and the one computed before.
ThisFingerprint == Compute(scriptConfig, dependencyFingerprints, globbed)
PreviousFingerprint == FromString(stored)

\* The kinds of difference in the order of the claim, each with whether two
\* fingerprints differ in that way.
DifferenceKinds(this, prev) ==
  << <<"environment", "platform", this.platform # prev.platform>>,
     <<"environment", "arch", this.arch # prev.arch>>,
     <<"environment", "nodeVersion", this.nodeVersion # prev.nodeVersion>>,
     <<"config", "command", this.command # prev.command>>,
     <<"config", "extraArgs", this.extraArgs # prev.extraArgs>>,
     <<"config", "clean", this.clean # prev.clean>>,
     <<"config", "output", this.output # prev.output>>,
     <<"config", "service", this.service # prev.service>>,
     <<"config", "env", this.env # prev.env>>,
     <<"file added", "", Added(this.files, prev.files) # 0>>,
     <<"file removed", "", Removed(this.files, prev.files) # 0>>,
     <<"file changed", "",
       \E k \in DOMAIN this.files, j \in DOMAIN prev.files :
          /\ this.files[k][1] = prev.files[j][1]
          /\ this.files[k][2] # prev.files[j][2]>>,
     <<"dependency added", "",
       Added(this.dependencies, prev.dependencies) # 0>>,
     <<"dependency removed", "",
       Removed(this.dependencies, prev.dependencies) # 0>>,
     <<"dependency changed", "",
       \E k \in DOMAIN this.dependencies, j \in DOMAIN prev.dependencies :
          /\ this.dependencies[k][1] = prev.dependencies[j][1]
          /\ this.dependencies[k][2] # prev.dependencies[j][2]>> >>

\* C23: when two unequal fingerprints differ in one of the listed ways,
\* difference(previous) reports the first of the ways they differ in, an
\* added dependency as 'dependency added'.
C23_FirstDifferenceReported ==
  LET kinds == DifferenceKinds(ThisFingerprint, PreviousFingerprint)
      found == {k \in DOMAIN kinds : kinds[k][3]}
      first == CHOOSE k \in found : \A j \in found : k <= j
      reported == Difference(ThisFingerprint, PreviousFingerprint)
  IN (~Equal(ThisFingerprint, PreviousFingerprint) /\ found # {}) =>
       /\ reported.name = kinds[first][1]
       /\ reported.field = kinds[first][2]

(***************************************************************************)
(* Fingerprint.compute: fullyTracked, cascade, order                       *)
(***************************************************************************)
\* Every cascading dependency of the script is fully tracked.
DependenciesTracked ==
  \A k \in DOMAIN dependencyFingerprints :
     dependencyFingerprints[k].cascade =>
       dependencyFingerprints[k].fullyTracked

\* C24: a service with a command and no "files", whose cascading
\* dependencies are all fully tracked, has a fully tracked fingerprint.
C24_ServiceWithoutFilesTracked ==
  ( /\ scriptConfig.service # "undefined"
    /\ scriptConfig.command # "undefined"
    /\ scriptConfig.files = "undefined"
    /\ DependenciesTracked ) => ThisFingerprint.fullyTracked

\* C25: the fingerprint of a script that is not a service is not fully
\* tracked exactly when a cascading dependency is not fully tracked, or the
\* script has a command and no "files", or a command and "files" and no
\* "output"; an empty "files" array counts as defined.
C25_FullyTrackedOfStandardScript ==
  scriptConfig.service = "undefined" =>
    ( ~ThisFingerprint.fullyTracked <=>
        \/ ~DependenciesTracked
        \/ /\ scriptConfig.command # "undefined"
           /\ scriptConfig.files = "undefined"
        \/ /\ scriptConfig.command # "undefined"
           /\ scriptConfig.files \in {"empty", "some"}
           /\ scriptConfig.output = "undefined" )

\* A command with "files": [] and an output is fully tracked although a
\* dependency that does not cascade is not.
C25_Witness ==
  /\ scriptConfig.service = "undefined"
  /\ scriptConfig.command = "cmd"
  /\ scriptConfig.files = "empty"
  /\ scriptConfig.output = "defined"
  /\ \E k \in DOMAIN dependencyFingerprints :
       /\ ~dependencyFingerprints[k].cascade
       /\ ~dependencyFingerprints[k].fullyTracked
  /\ ThisFingerprint.fullyTracked
  /\ ~PreviousFingerprint.fullyTracked

\* C26: whatever fingerprint a dependency that does not cascade has, the
\* fingerprint of the script is the same.
C26_NonCascadingHasNoInfluence ==
  \A k \in DOMAIN dependencyFingerprints :
     ~dependencyFingerprints[k].cascade =>
       \A t \in BOOLEAN, h \in 1..2 :
          Equal(Compute(scriptConfig,
                        [dependencyFingerprints EXCEPT ![k].fullyTracked = t,
                                                       ![k].hash = h],
                        globbed),
                ThisFingerprint)

\* A dependency that does not cascade has got another fingerprint, one that
\* is not fully tracked, and the fingerprint of the script is the stored
\* one, fully tracked.
C26_Witness ==
  /\ edits > 0
  /\ \E k \in DOMAIN dependencyFingerprints :
       /\ ~dependencyFingerprints[k].cascade
       /\ Hash(dependencyFingerprints[k]) = <<FALSE, 2>>
  /\ Equal(ThisFingerprint, PreviousFingerprint)
  /\ ThisFingerprint.fullyTracked

\* C27: in whatever order the dependencies and the files are handed to
\* compute(), the fingerprint is the same.
C27_OrderHasNoInfluence ==
  \A d \in Orders(dependencyFingerprints), g \in Orders(globbed) :
     Equal(Compute(scriptConfig, d, g), ThisFingerprint)

\* Two cascading dependencies are handed over in descending order, next to
\* an input file.
C27_Witness ==
  /\ scriptConfig.files = "some"
  /\ Len(globbed) = 1
  /\ Len(dependencyFingerprints) = 2
  /\ dependencyFingerprints[1].name > dependencyFingerprints[2].name
  /\ \A k \in 1..2 : dependencyFingerprints[k].cascade

(***************************************************************************)
(* Analyzer: one config object per script                                  *)
(***************************************************************************)
\* C28: for every script at most one placeholder object is made and at most
\* one upgrade is started, the script has a placeholder exactly when one was
\* made, and every dependency entry holds that one object.
C28_OneConfigPerScript ==
  \A n \in Scripts :
     /\ created[n] <= 1
     /\ enqueued[n] <= 1
     /\ (n \in placeholders) = (created[n] = 1)
     /\ DOMAIN held[n] = DOMAIN declared[n]
     /\ \A k \in DOMAIN held[n] : held[n][k] = 1

\* A script with two dependents, both upgraded, the one that was reached
\* first upgraded last.
C28_Witness ==
  \E d, a, b \in Scripts :
     /\ a # b
     /\ d \in Range(declared[a]) \cap Range(declared[b])
     /\ {a, b, d} \subseteq upgraded
     /\ phase = "done"
     /\ created[d] = 1

(***************************************************************************)
(* Configs after analysis                                                  *)
(***************************************************************************)
\* C29: once an analysis has succeeded, the dependency list of every config
\* reachable from the root is sorted by (packageDir, name), and it stays
\* sorted while the graph is executed.
C29_DependenciesStaySorted ==
  (phase = "done" /\ result = "ok") =>
     \A n \in placeholders : dependencies[n] = SortDependencies(dependencies[n])

(***************************************************************************)
(* Service: start() while coming up or running                             *)
(***************************************************************************)
\* C30: a consumer's start() on a service that is in depsStarting, starting
\* or started leaves the execution as it is: no state change and no error.
C30_StartIsIdempotent ==
  [][
      \A i \in Iters :
         (/\ exec[i].state \in {"depsStarting", "starting", "started"}
          /\ ConsumerStart(i))
         => exec'[i] = exec[i]
    ]_vars

(***************************************************************************)
(* Service: failure while starting                                         *)
(***************************************************************************)
\* C31: when the child of a service that is in starting exits (or fails to
\* spawn), the service becomes failed and the promise start() returned is
\* resolved with the failure.
C31_StartErrFails ==
  [][
      \A i \in Iters :
         (/\ exec[i].state = "starting"
          /\ ChildExited(i))
         => (/\ exec'[i].state = "failed"
             /\ exec'[i].started \notin {"none", "pending", "ok"})
    ]_vars

(***************************************************************************)
(* Executing the dependencies of a script                                  *)
(***************************************************************************)
\* The dependencies whose execution failed.
FailedDependencies ==
  {k \in DOMAIN dependencyResults : ~dependencyResults[k].ok}

\* C32: _executeDependencies returns only when every dependency has settled;
\* it succeeds iff all succeeded, with each dependency paired with its own
\* fingerprint, and else fails with every failure of every failed dependency,
\* each once.
C32_DependencyResultsAggregated ==
  executed.state = "returned" =>
    /\ \A k \in DOMAIN dependencyResults : dependencyResults[k].settled
    /\ executed.ok = (FailedDependencies = {})
    /\ executed.ok =>
         executed.value = [k \in DOMAIN configDependencies |->
                             <<configDependencies[k],
                               dependencyResults[k].value>>]
    /\ ~executed.ok =>
         /\ Range(executed.error) =
              UNION {Range(dependencyResults[k].error) :
                       k \in FailedDependencies}
         /\ \A a, b \in DOMAIN executed.error :
              executed.error[a] = executed.error[b] => a = b

\* Two dependencies failed with a failure in common.
C32_Witness ==
  /\ executed.state = "returned"
  /\ \E a, b \in FailedDependencies :
       /\ a # b
       /\ Range(dependencyResults[a].error)
            \cap Range(dependencyResults[b].error) # {}

(***************************************************************************)
(* Analyzer: the queue of upgrades is drained before the cycle check       *)
(***************************************************************************)
\* C33: the cycle check runs, and analyze() returns, only when every
\* placeholder that was created has been upgraded.
C33_AllUpgradedBeforeCycleCheck ==
  phase \in {"checking", "done"} => placeholders \subseteq upgraded

\* The cycle check has started on a graph with a script that only a
\* dependency of the root refers to: its upgrade was enqueued while the queue
\* was being drained.
C33_Witness ==
  /\ phase \in {"checking", "done"}
  /\ \E n \in placeholders \ {root} :
       /\ n \notin Range(declared[root])
       /\ \E m \in Range(declared[root]) \ {root} : n \in Range(declared[m])

(***************************************************************************)
(* Fingerprint.difference: the internal errors                             *)
(***************************************************************************)
\* C34: for two fingerprints that are not equal, difference() returns a
\* difference; it does not end in one of its two internal errors.
C34_DifferenceFound ==
  ~Equal(ThisFingerprint, PreviousFingerprint) =>
     Difference(ThisFingerprint, PreviousFingerprint).name # "Internal error"

(***************************************************************************)
(* GitHubActionsCache: the service-is-down latch                           *)
(***************************************************************************)
\* C35: once a connection error, a 429 or a 503 has been received the latch
\* is set (and stays set), and a get() or set() begun after that has returned
\* a miss, respectively false, without a request and without throwing.
C35_ServiceDownLatched ==
  /\ observed => serviceIsDown
  /\ \A c \in CacheCalls :
       cacheCalls[c].begunAfter =>
         /\ cacheCalls[c].pc = "done"
         /\ cacheCalls[c].sent = 0
         /\ cacheCalls[c].result =
              (IF cacheCalls[c].op = "get" THEN "miss" ELSE "false")

\* A set() begun after a get() received one of the three responses.
C35_Witness ==
  \E c, d \in CacheCalls :
     /\ c # d
     /\ cacheCalls[c].op = "set" /\ cacheCalls[c].begunAfter
     /\ cacheCalls[d].op = "get" /\ ~cacheCalls[d].begunAfter
     /\ cacheCalls[d].result = "miss"

(***************************************************************************)
(* The percentages of the summary                                          *)
(***************************************************************************)
\* The percentage of part with respect to whole.
Percentage(part, whole) == IF whole = 0 THEN 0 ELSE (100 * part) \div whole

\* C36: every percentage of a printed summary is the percentage of its part
\* with respect to the whole, and the two loggers compute the same
\* percentage from the same counts.
C36_SummaryPercentages ==
  /\ \A k \in DOMAIN printed.percents :
       printed.percents[k] = Percentage(printed.parts[k], printed.whole)
  /\ \A part \in {counts.ran, counts.fresh, counts.cached} :
       CalculatePercentage(part, counts.total)
         = MetricsCalculatePercentage(part, counts.total)

(***************************************************************************)
(* Service: no handler meets a state it does not expect                    *)
(***************************************************************************)
\* C37: whatever the order of the events of a service execution, none of
\* its handlers throws 'Unexpected service state'.
C37_NoUnexpectedServiceState == \A i \in Iters : ~exec[i].threw

(***************************************************************************)
(* Watcher: no handler meets a state it does not expect                    *)
(***************************************************************************)
\* C38: once watch() has been called, no step of the watcher throws: neither
\* 'Unexpected watcher state' nor the error of #startDebounce about a
\* timer that is already pending.
C38_NoUnexpectedWatcherState ==
  [][
      (watcher.state # "initial" /\ ~watcher.threw) => ~watcher'.threw
    ]_vars

(***************************************************************************)
(* Watcher: one run at a time                                              *)
(***************************************************************************)
\* C39: the watcher enters 'running' only when no analysis and no execution
\* is in flight, and an executor is started only by a run that has nothing
\* in flight or by the analysis of the same run.
C39_OneRunInFlight ==
  [][
      /\ (watcher.state # "running" /\ watcher'.state = "running")
           => watcher.task = "none"
      /\ (watcher.task # "executing" /\ watcher'.task = "executing")
           => \/ watcher.task = "none"
              \/ watcher.task = "analyzing" /\ watcher'.called = "analyze"
    ]_vars

\* A manifest changed while the executor was running; that run has reported
\* run-done and the next run waits for the debounce timer.
C39_Witness ==
  /\ watcher.state = "debouncing"
  /\ watcher.called = "execute"
  /\ watcher.task = "none"
  /\ "executing" \in watcher.manifestEventsSinceRun
  /\ ~watcher.threw

(***************************************************************************)
(* Service: the promise of start()                                         *)
(***************************************************************************)
\* C40: the promise start() returned does not stay pending: it is resolved,
\* ok or with a failure, also when the service is aborted while it is in
\* depsStarting or starting.
C40_StartedEventuallyResolved ==
  \A i \in Iters :
     (exec[i].started = "pending") ~> (exec[i].started # "pending")

====
